---- MODULE Spec2Model ----
(***************************************************************************)
(* A model of segmented-proxy (src/src/segmentedproxy).                    *)
(*                                                                         *)
(* The module holds several specifications over one set of variables; a    *)
(* specification leaves the variables of the other parts at their idle     *)
(* values.                                                                 *)
(*   SpecServer : server.py, ThreadedTCPServer (accept loop, admission     *)
(*                semaphore, workers, shutdown)                            *)
(*   SpecData   : handlers.py, _send_body_with_policy, and tunnel.py,      *)
(*                relay_tunnel with the relays it runs                     *)
(*   SpecHandler: handlers.py, handle_connect_tunnel and                   *)
(*                handle_http_forward                                      *)
(*   SpecCache  : resolver.py, CachingResolver.resolve called by several   *)
(*                workers                                                  *)
(*   SpecEngine : segmentation.py, SegmentationEngine.decide               *)
(*   SpecPolicy : policy.py, check_host_policy                             *)
(*   SpecRuleText: segmentation.py, parse_segment_rule, and main.py,       *)
(*                format_rule                                              *)
(*   SpecPlainDns: resolver.py, PlainDnsResolver.resolve                   *)
(*   SpecChunked: main.py, read_chunked_body                               *)
(*   SpecUpConn : tunnel.py, perform_upstream_connect                      *)
(*   SpecOpenUp : tunnel.py, open_upstream                                 *)
(*   SpecClient : app.py, handle_client, up to the tunnel's first relay    *)
(*   SpecScore  : segmentation.py, _rule_score                             *)
(*   SpecCacheLock: resolver.py, CachingResolver.resolve with the lock's   *)
(*                acquire and release as steps                             *)
(*   SpecFwdHdr : handlers.py, handle_http_forward, the headers sent       *)
(*                upstream                                                 *)
(*   SpecReadName: resolver.py, PlainDnsResolver._read_name                *)
(* SpecServerFair, SpecTunnelFair, SpecChunkedFair and SpecReadNameFair    *)
(* add the fairness the threads of the program give.                       *)
(***************************************************************************)
EXTENDS Integers, Sequences, FiniteSets, TLC

VARIABLES
    \* ---- server.py: ThreadedTCPServer -------------------------------
    sem,          \* value of self._sem (free permits of the BoundedSemaphore)
    sem_error,    \* TRUE once BoundedSemaphore.release raised ValueError
    stop_event,   \* self._stop_event
    listen_sock,  \* self._sock: "unset" (None), "open", "closed"
    loop_pc,      \* position of serve_forever
    cur,          \* connection held by the accept loop (0: none)
    shut_pc,      \* position of shutdown(): "idle", "set", then "done" or
                  \* "skipped" (self._sock was None: nothing to close)
    conn,         \* per connection: position of its socket / worker
    outcome,      \* per connection: what self.handler did
    sock_open,    \* per connection: client socket still open
    acquires,     \* per connection: permits acquired for it
    releases,     \* per connection: permits released by its worker
    escaped,      \* per connection: an exception left _run_handler
    after_raise,  \* per connection: accepted after some handler had raised
    \* ---- handlers.py: _send_body_with_policy; tunnel.py: relay_tunnel --
    scenario,     \* which operation runs: "idle", "body" or "tunnel"
    policy,       \* the SegmentationPolicy passed in
    body,         \* _send_body_with_policy: the body argument
    b_pc,         \* position of _send_body_with_policy
    b_idx,        \* loop index (i of send_fixed, idx of the random loop)
    b_writes,     \* the completed sock.sendall calls, in order
    b_wire,       \* every byte that reached the upstream socket
    t_in,         \* per side: the bytes that side has yet to deliver
    t_read,       \* per side: the bytes recv() has returned from it
    t_written,    \* per side: the bytes sent to it
    t_werr,       \* per side: a sendall to it has raised
    m_pc,         \* position of relay_tunnel and of the relay it runs
    m_buf,        \* data: the buffer the last recv returned
    m_idx,        \* i / idx: offset of the next slice in data
    m_slices,     \* the completed sendall calls made for data, in order
    m_exit,       \* why the relay run by relay_tunnel returned
    readable,     \* relay_bidirectional: sockets select() reported, unserved
    idle_ticks,   \* relay_bidirectional: seconds since last_activity
    stop,         \* relay_tunnel: the shared stop Event
    r_pc,         \* position of the _relay_oneway thread
    r_buf,        \* _relay_oneway: data
    socks_closed, \* the handler has closed both sockets after relay_tunnel
    \* ---- handlers.py: handle_connect_tunnel, handle_http_forward ------
    h_kind,          \* "idle", "connect" or "http": the handler that runs
    resolver,        \* settings.resolver: the configured resolver variant
    h_pc,            \* position of the handler
    policy_decision, \* what check_host_policy returns for the request's host
    decision,        \* what SegmentationEngine.decide returns for the request
    h_log,           \* the calls and writes the handler has made, in order
    client_out,      \* what has been written to the client socket, in order
    up_sock,         \* the upstream socket: "none", "open" or "closed"
    up_out,          \* what has been written to the upstream socket, in order
    forwarded,       \* response buffers forwarded to the client (HTTP path)
    \* ---- resolver.py: CachingResolver ---------------------------------
    max_entries,  \* self._max_entries
    cache,        \* self._cache, in the order of the OrderedDict
    clock,        \* time.monotonic(), in ticks of 1 / TicksPerSecond seconds
    fifo,         \* the keys now in the cache, in the order of their insertion
    calls,        \* resolve calls started so far
    q_pc,         \* per thread: position in CachingResolver.resolve
    q_host,       \* per thread: host
    q_port,       \* per thread: port
    q_now,        \* per thread: now
    q_res,        \* per thread: result (of the inner resolver)
    q_ret,        \* what a resolve call has just returned (NoResult after any
                  \* step that is not a return)
    q_log,        \* the logger.debug record of the step just taken, if any
    \* ---- segmentation.py: SegmentationEngine -------------------------
    e_rules,      \* self._rules
    e_default,    \* self._default
    e_ctx,        \* decide: the ctx argument
    e_pc,         \* position of decide: "idle", "loop", "return" or "done"
    e_call,       \* which call of decide on this engine and ctx runs (1, 2)
    e_idx,        \* decide: index in self._rules of the loop's next rule
    best_rule,    \* decide: index in self._rules of best_rule (0: None)
    best_score,   \* decide: best_score
    e_first,      \* the decision the first call returned
    e_decision,   \* the decision the call that runs returned
    \* ---- policy.py: check_host_policy --------------------------------
    p_host,        \* host
    allow_domains, \* allow_domains
    deny_domains,  \* deny_domains
    deny_private,  \* deny_private
    p_dns,         \* what socket.getaddrinfo does for host
    p_pc,          \* position of check_host_policy
    p_idx,         \* index of the next rule of the loop that runs
    p_ret,         \* the PolicyDecision returned
    \* ---- segmentation.py: parse_segment_rule; main.py: format_rule ---
    sr_text,       \* the rule text
    sr_pc,         \* position of _parse_segment_rule_inner and its caller
    sr_parts,      \* parts: the stripped, non-empty comma-separated tokens
    sr_idx,        \* index in parts of the token the loop handles next
    sr_locals,     \* host_glob, mode, strategy, ... while the text is parsed
    sr_rule,       \* the SegmentationRule returned
    sr_error,      \* message of the ValueError raised ("" if none)
    sr_out,        \* what format_rule returned for the rule
    \* ---- resolver.py: PlainDnsResolver.resolve ------------------------
    dns_transport, \* self._transport
    dns_pc,        \* position of resolve and of _resolve_type
    dns_q,         \* index of the record type the loop of resolve is at
    dns_log,       \* the _query_udp and _query_tcp calls made, in order
    dns_addrs,     \* record types that gave addresses so far
    dns_used,      \* transport_used and fallback_used of resolve
    dns_ret,       \* what resolve did in the end, and the DnsTrace it set
    \* ---- main.py: read_chunked_body ------------------------------------
    ch_chunks,     \* the chunks of the stream the client sends
    ch_trailers,   \* its trailer lines
    ch_cut,        \* bytes of the stream the client sends before it closes
    ch_rest,       \* bytes sent that recv has not returned yet
    ch_buf,        \* buf
    ch_out,        \* out
    ch_pc,         \* position of read_chunked_body
    ch_need,       \* n of the read_exact call in progress
    \* ---- tunnel.py: perform_upstream_connect --------------------------
    uc_pc,         \* position of perform_upstream_connect / _recv_headers
    uc_data,       \* data of _recv_headers
    uc_recvs,      \* how each recv on the upstream socket ended, in order
    uc_response,   \* what _recv_headers returned
    uc_ret,        \* what perform_upstream_connect returned
    \* ---- tunnel.py: open_upstream --------------------------------------
    ou_pc,         \* position of open_upstream
    ou_addrs,      \* addrs
    ou_idx,        \* position in addrs of the for loop
    ou_socks,      \* the sockets created, in order
    ou_log,        \* the connect calls made, in order, with their outcome
    last_error,    \* last_error
    ou_ret,        \* how open_upstream ended: socket returned, error raised
    \* ---- app.py: handle_client -----------------------------------------
    hc_stream,     \* every byte the client sends on the connection
    hc_rest,       \* the bytes of it that recv has not returned yet
    hc_raw,        \* raw (data of recv_until)
    hc_body,       \* body
    hc_remaining,  \* remaining
    hc_up,         \* the bytes the tunnel has sent to the upstream
    hc_pc,         \* position of handle_client
    \* ---- segmentation.py: _rule_score -----------------------------------
    sc_rules,      \* the rules scored
    sc_scores,     \* what _rule_score returned for each (None before)
    sc_idx,        \* number of rules scored so far
    \* ---- resolver.py: CachingResolver.resolve, the lock as steps -------
    k_max,         \* self._max_entries
    k_lock,        \* the thread that holds self._lock ("none": free)
    k_cache,       \* self._cache, in the order of the OrderedDict
    k_clock,       \* time.monotonic(), in ticks
    k_calls,       \* resolve calls made so far
    k_pc,          \* per thread: position in resolve
    k_key,         \* per thread: key
    k_now,         \* per thread: now
    k_res,         \* per thread: result of the inner resolver
    k_ret,         \* the last return of resolve
    \* ---- handlers.py: handle_http_forward, the forwarded headers -------
    fw_lines,      \* the header lines of the client's request
    fw_port,       \* port of the request target
    fw_req,        \* req.headers
    fw_headers,    \* headers
    fw_blob,       \* header_blob
    fw_pc,         \* position: "parse", "build", "sent"
    \* ---- resolver.py: PlainDnsResolver._read_name ----------------------
    rn_data,       \* data, the message, a sequence of bytes
    rn_offset,     \* offset, the argument
    labels,        \* labels, each the sequence of its code points
    jumped,
    next_offset,
    after_pointer,
    seen_offsets,
    rn_reads,      \* the indices of data read so far
    rn_ret,        \* <<"return", name, offset>> or <<"raise", error, 0>>
    rn_pc          \* position: "loop", "join", "done"

server_vars == <<sem, sem_error, stop_event, listen_sock, loop_pc, cur, shut_pc,
                 conn, outcome, sock_open, acquires, releases, escaped,
                 after_raise>>

body_vars == <<body, b_pc, b_idx, b_writes, b_wire>>

flow_vars == <<t_in, t_read, t_written, t_werr>>

main_vars == <<m_pc, m_buf, m_idx, m_slices, m_exit, readable, idle_ticks>>

reader_vars == <<r_pc, r_buf>>

tunnel_vars == <<flow_vars, main_vars, reader_vars, stop, socks_closed>>

data_vars == <<scenario, policy, body_vars, tunnel_vars>>

handler_vars == <<h_kind, resolver, h_pc, policy_decision, decision, h_log, client_out,
                  up_sock, up_out, forwarded>>

cache_vars == <<max_entries, cache, clock, fifo, calls, q_pc,
                q_host, q_port, q_now, q_res, q_ret, q_log>>

engine_vars == <<e_rules, e_default, e_ctx, e_pc, e_call, e_idx, best_rule,
                 best_score, e_first, e_decision>>

hostpolicy_vars == <<p_host, allow_domains, deny_domains, deny_private, p_dns,
                     p_pc, p_idx, p_ret>>

ruletext_vars == <<sr_text, sr_pc, sr_parts, sr_idx, sr_locals, sr_rule,
                   sr_error, sr_out>>

\* The parts whose inputs are drawn once and that touch nothing else.
plaindns_vars == <<dns_transport, dns_pc, dns_q, dns_log, dns_addrs, dns_used,
                   dns_ret>>

chunked_vars == <<ch_chunks, ch_trailers, ch_cut, ch_rest, ch_buf, ch_out, ch_pc,
                  ch_need>>

upconn_vars == <<uc_pc, uc_data, uc_recvs, uc_response, uc_ret>>

openup_vars == <<ou_pc, ou_addrs, ou_idx, ou_socks, ou_log, last_error, ou_ret>>

client_vars == <<hc_stream, hc_rest, hc_raw, hc_body, hc_remaining, hc_up, hc_pc>>

score_vars == <<sc_rules, sc_scores, sc_idx>>

cachelock_vars == <<k_max, k_lock, k_cache, k_clock, k_calls, k_pc, k_key, k_now, k_res, k_ret>>

fwdhdr_vars == <<fw_lines, fw_port, fw_req, fw_headers, fw_blob, fw_pc>>

readname_vars ==
    <<rn_data, rn_offset, labels, jumped, next_offset, after_pointer, seen_offsets, rn_reads,
      rn_ret, rn_pc>>

last_vars == <<upconn_vars, openup_vars, client_vars, score_vars, cachelock_vars, fwdhdr_vars, readname_vars>>

later_vars == <<ruletext_vars, plaindns_vars, chunked_vars, last_vars>>

\* Every part but the last ones
earlier_vars == <<server_vars, data_vars, handler_vars, cache_vars, engine_vars,
                  hostpolicy_vars, ruletext_vars, plaindns_vars, chunked_vars>>

vars == <<server_vars, data_vars, handler_vars, cache_vars, engine_vars,
          hostpolicy_vars, later_vars>>

(***************************************************************************)
(* Idle values of the parts a specification does not run                   *)
(***************************************************************************)

\* Python's None for an optional int field (min_chunk, max_chunk).
None == -1

Sides == {"client", "upstream"}

TunnelIdle ==
    /\ t_in = [x \in Sides |-> <<>>]
    /\ t_read = [x \in Sides |-> <<>>]
    /\ t_written = [x \in Sides |-> <<>>]
    /\ t_werr = [x \in Sides |-> FALSE]
    /\ m_pc = "idle"
    /\ m_buf = <<>>
    /\ m_idx = 0
    /\ m_slices = <<>>
    /\ m_exit = "none"
    /\ readable = <<>>
    /\ idle_ticks = 0
    /\ stop = FALSE
    /\ r_pc = "none"
    /\ r_buf = <<>>
    /\ socks_closed = FALSE

\* Python's None for an optional str field (reason).
NoneStr == "<None>"

HandlerIdle ==
    /\ h_kind = "idle"
    /\ resolver = "system"
    /\ h_pc = "idle"
    /\ policy_decision = [allowed |-> TRUE, reason |-> ""]
    /\ decision = [action |-> "direct", reason |-> NoneStr, upstream |-> FALSE]
    /\ h_log = <<>>
    /\ client_out = <<>>
    /\ up_sock = "none"
    /\ up_out = <<>>
    /\ forwarded = 0

\* A resolve result: the addresses, the TTL, and how the call ended.
NoResult == [addrs |-> <<>>, ttl_seconds |-> 0, how |-> "none"]

\* A logger.debug record of CachingResolver: the message and its host, port.
LogRecord(msg, host, port) == [msg |-> msg, host |-> host, port |-> port]

NoLog == LogRecord("none", "", 0)

\* The workers that share the resolver.
Threads == {"w1", "w2"}

CacheIdle ==
    /\ max_entries = 0
    /\ cache = <<>>
    /\ clock = 0
    /\ fifo = <<>>
    /\ calls = 0
    /\ q_pc = [t \in Threads |-> "idle"]
    /\ q_host = [t \in Threads |-> ""]
    /\ q_port = [t \in Threads |-> 0]
    /\ q_now = [t \in Threads |-> 0]
    /\ q_res = [t \in Threads |-> NoResult]
    /\ q_ret = NoResult
    /\ q_log = NoLog

\* A SegmentationDecision not yet made.
NoDecision ==
    [action |-> "none", policy |-> "none", upstream |-> NoneStr,
     matched_rule |-> 0, reason |-> NoneStr, score |-> 0]

EngineIdle ==
    /\ e_rules = <<>>
    /\ e_default = "default"
    /\ e_ctx = [method |-> "", scheme |-> "", host |-> <<>>, port |-> 0,
                path |-> <<>>]
    /\ e_pc = "idle"
    /\ e_call = 0
    /\ e_idx = 0
    /\ best_rule = 0
    /\ best_score = 0
    /\ e_first = NoDecision
    /\ e_decision = NoDecision

\* A PolicyDecision not yet made.
NoPolicyDecision == [allowed |-> FALSE, reason |-> <<>>]

HostPolicyIdle ==
    /\ p_host = <<>>
    /\ allow_domains = <<>>
    /\ deny_domains = <<>>
    /\ deny_private = FALSE
    /\ p_dns = "none"
    /\ p_pc = "idle"
    /\ p_idx = 0
    /\ p_ret = NoPolicyDecision

\* A SegmentationRule not (yet) returned, and the locals before the parse.
NoRule == [host_glob |-> NoneStr]

RuleTextIdle ==
    /\ sr_text = ""
    /\ sr_pc = "idle"
    /\ sr_parts = <<>>
    /\ sr_idx = 0
    /\ sr_locals = NoRule
    /\ sr_rule = NoRule
    /\ sr_error = ""
    /\ sr_out = ""

\* transport_used and fallback_used before the loop of resolve, and the
\* outcome of a resolve that has not ended.
NoTrace == [transport |-> NoneStr, fallback |-> 0]

PlainDnsIdle ==
    /\ dns_transport = "udp"
    /\ dns_pc = "idle"
    /\ dns_q = 0
    /\ dns_log = <<>>
    /\ dns_addrs = {}
    /\ dns_used = NoTrace
    /\ dns_ret = [outcome |-> "none", trace |-> NoTrace]

ChunkedIdle ==
    /\ ch_chunks = <<>>
    /\ ch_trailers = <<>>
    /\ ch_cut = 0
    /\ ch_rest = <<>>
    /\ ch_buf = <<>>
    /\ ch_out = <<>>
    /\ ch_pc = "idle"
    /\ ch_need = 0

UpConnIdle ==
    /\ uc_pc = "idle"
    /\ uc_data = ""
    /\ uc_recvs = <<>>
    /\ uc_response = ""
    /\ uc_ret = "none"

OpenUpIdle ==
    /\ ou_pc = "idle"
    /\ ou_addrs = <<>>
    /\ ou_idx = 0
    /\ ou_socks = <<>>
    /\ ou_log = <<>>
    /\ last_error = [type |-> NoneStr, addr |-> 0]
    /\ ou_ret = [how |-> "none", sock |-> 0, error |-> [type |-> NoneStr, addr |-> 0]]

ClientIdle ==
    /\ hc_stream = ""
    /\ hc_rest = ""
    /\ hc_raw = ""
    /\ hc_body = ""
    /\ hc_remaining = 0
    /\ hc_up = ""
    /\ hc_pc = "idle"

ScoreIdle ==
    /\ sc_rules = <<>>
    /\ sc_scores = <<>>
    /\ sc_idx = 0

\* No return of resolve yet.
NoReturn == [thread |-> "none", how |-> "none", key |-> <<"", 0>>, ttl_seconds |-> 0, while_inner |-> {}]

CacheLockIdle ==
    /\ k_max = 0
    /\ k_lock = "none"
    /\ k_cache = <<>>
    /\ k_clock = 0
    /\ k_calls = 0
    /\ k_pc = [t \in Threads |-> "idle"]
    /\ k_key = [t \in Threads |-> <<"", 0>>]
    /\ k_now = [t \in Threads |-> 0]
    /\ k_res = [t \in Threads |-> 0]
    /\ k_ret = NoReturn

FwdHdrIdle ==
    /\ fw_lines = <<>>
    /\ fw_port = 0
    /\ fw_req = <<>>
    /\ fw_headers = <<>>
    /\ fw_blob = ""
    /\ fw_pc = "idle"

ReadNameIdle ==
    /\ rn_data = <<>>
    /\ rn_offset = 0
    /\ labels = <<>>
    /\ jumped = FALSE
    /\ next_offset = 0
    /\ after_pointer = 0
    /\ seen_offsets = {}
    /\ rn_reads = {}
    /\ rn_ret = <<"none", <<>>, 0>>
    /\ rn_pc = "idle"

LastIdle == UpConnIdle /\ OpenUpIdle /\ ClientIdle /\ ScoreIdle /\ CacheLockIdle /\ FwdHdrIdle /\ ReadNameIdle

LaterIdle == RuleTextIdle /\ PlainDnsIdle /\ ChunkedIdle /\ LastIdle

\* The parts added to the model after the server, the relays, the handlers
\* and the cache.
PureIdle == EngineIdle /\ HostPolicyIdle /\ LaterIdle

DataIdle ==
    /\ scenario = "idle"
    /\ policy = [mode |-> "direct", strategy |-> "none", chunk_size |-> 1024,
                 delay_ms |-> 0, min_chunk |-> None, max_chunk |-> None]
    /\ body = <<>>
    /\ b_pc = "idle"
    /\ b_idx = 0
    /\ b_writes = <<>>
    /\ b_wire = <<>>
    /\ TunnelIdle

(***************************************************************************)
(* server.py                                                               *)
(***************************************************************************)

\* Number of client connections that arrive during a run.
NumConns == 2

\* max_connections given to ThreadedTCPServer (200 by default; scaled down).
max_connections == 1

Conns == 1..NumConns

\* What self.handler(client_sock, client_addr) can do: return, or raise an
\* exception (a subclass of Exception).
HandlerOutcomes == {"return", "Exception"}

\* threading.BoundedSemaphore.acquire(blocking=False): succeeds iff a permit
\* is free.
SemAcquireIgnoringValue(v) == TRUE

SemAcquire(v) == v > 0

\* `except Exception:` in _run_handler catches what the handler raises.
ExceptCatchesNothing(o) == FALSE

ExceptCatches(o) == o = "Exception"

\* self._sem.release() sits in the `finally:` block: it runs for every outcome.
ReleaseOnlyOnReturn(o) == o = "return"

ReleaseRuns(o) == TRUE

ServerInit ==
    /\ sem = max_connections
    /\ sem_error = FALSE
    /\ stop_event = FALSE
    /\ listen_sock = "unset"
    /\ loop_pc = "start"
    /\ cur = 0
    /\ shut_pc = "idle"
    /\ conn = [c \in Conns |-> "pending"]
    /\ outcome = [c \in Conns |-> "none"]
    /\ sock_open = [c \in Conns |-> FALSE]
    /\ acquires = [c \in Conns |-> 0]
    /\ releases = [c \in Conns |-> 0]
    /\ escaped = [c \in Conns |-> FALSE]
    /\ after_raise = [c \in Conns |-> FALSE]

\* The server steps leave the state of the other parts alone.
ServerFrame ==
    UNCHANGED <<data_vars, handler_vars, cache_vars, engine_vars, hostpolicy_vars,
                later_vars>>

\* serve_forever, lines 29-30: create the socket and store it in self._sock.
ServeStart ==
    /\ loop_pc = "start"
    /\ listen_sock' = "open"
    /\ loop_pc' = "bind"
    /\ UNCHANGED <<sem, sem_error, stop_event, cur, shut_pc, conn, outcome,
                   sock_open, acquires, releases, escaped, after_raise>>
    /\ ServerFrame

\* serve_forever, lines 31-36: setsockopt, bind, listen, settimeout; on a
\* socket shutdown() has closed meanwhile they raise OSError, which leaves
\* serve_forever before the loop is entered.
ServeBind ==
    /\ loop_pc = "bind"
    /\ loop_pc' = IF listen_sock = "closed" THEN "failed" ELSE "check"
    /\ UNCHANGED <<sem, sem_error, stop_event, listen_sock, cur, shut_pc, conn,
                   outcome, sock_open, acquires, releases, escaped, after_raise>>
    /\ ServerFrame

\* A loop condition that never sees the stop flag
StopNeverObserved(flag) == FALSE

\* line 38: self._stop_event.is_set()
StopObserved(flag) == flag

\* line 38: while not self._stop_event.is_set(); leaving the loop leaves the
\* `with closing(...)` block, which closes the listening socket.
LoopCheck ==
    /\ loop_pc = "check"
    /\ IF StopObserved(stop_event)
       THEN /\ loop_pc' = "stopped"
            /\ listen_sock' = "closed"
       ELSE /\ loop_pc' = "accept"
            /\ UNCHANGED listen_sock
    /\ UNCHANGED <<sem, sem_error, stop_event, cur, shut_pc, conn, outcome,
                   sock_open, acquires, releases, escaped, after_raise>>
    /\ ServerFrame

\* line 40: s.accept() returns a client socket.
AcceptConn(c) ==
    /\ loop_pc = "accept"
    /\ listen_sock = "open"
    /\ conn[c] = "pending"
    /\ conn' = [conn EXCEPT ![c] = "accepted"]
    /\ sock_open' = [sock_open EXCEPT ![c] = TRUE]
    /\ after_raise' = [after_raise EXCEPT
                         ![c] = \E d \in Conns : outcome[d] = "Exception"]
    /\ cur' = c
    /\ loop_pc' = "acquire"
    /\ UNCHANGED <<sem, sem_error, stop_event, listen_sock, shut_pc, outcome,
                   acquires, releases, escaped>>
    /\ ServerFrame

\* lines 41-42: socket.timeout after the 1 s accept timeout; continue.  An
\* accept that waits while shutdown() closes the socket may end this way too.
AcceptTimeout ==
    /\ loop_pc = "accept"
    /\ loop_pc' = "check"
    /\ UNCHANGED <<sem, sem_error, stop_event, listen_sock, cur, shut_pc, conn,
                   outcome, sock_open, acquires, releases, escaped, after_raise>>
    /\ ServerFrame

\* lines 43-45: OSError from accept on the socket shutdown() closed; break.
AcceptOSError ==
    /\ loop_pc = "accept"
    /\ listen_sock = "closed"
    /\ loop_pc' = "stopped"
    /\ UNCHANGED <<sem, sem_error, stop_event, listen_sock, cur, shut_pc, conn,
                   outcome, sock_open, acquires, releases, escaped, after_raise>>
    /\ ServerFrame

\* lines 47-53: non-blocking acquire; on failure close the socket and continue.
TryAcquire ==
    /\ loop_pc = "acquire"
    /\ IF SemAcquire(sem)
       THEN /\ sem' = sem - 1
            /\ acquires' = [acquires EXCEPT ![cur] = @ + 1]
            /\ loop_pc' = "spawn"
            /\ UNCHANGED <<cur, conn, sock_open>>
       ELSE /\ sock_open' = [sock_open EXCEPT ![cur] = FALSE]
            /\ conn' = [conn EXCEPT ![cur] = "rejected"]
            /\ cur' = 0
            /\ loop_pc' = "check"
            /\ UNCHANGED <<sem, acquires>>
    /\ UNCHANGED <<sem_error, stop_event, listen_sock, shut_pc, outcome,
                   releases, escaped, after_raise>>
    /\ ServerFrame

\* lines 55-60: start the worker thread running _run_handler.
SpawnWorker ==
    /\ loop_pc = "spawn"
    /\ conn' = [conn EXCEPT ![cur] = "running"]
    /\ cur' = 0
    /\ loop_pc' = "check"
    /\ UNCHANGED <<sem, sem_error, stop_event, listen_sock, shut_pc, outcome,
                   sock_open, acquires, releases, escaped, after_raise>>
    /\ ServerFrame

\* shutdown(), line 65: self._stop_event.set()
ShutdownSet ==
    /\ shut_pc = "idle"
    /\ stop_event' = TRUE
    /\ shut_pc' = "set"
    /\ UNCHANGED <<sem, sem_error, listen_sock, loop_pc, cur, conn, outcome,
                   sock_open, acquires, releases, escaped, after_raise>>
    /\ ServerFrame

\* shutdown(), lines 66-70: close self._sock when it has been stored.
ShutdownClose ==
    /\ shut_pc = "set"
    /\ listen_sock' = IF listen_sock = "unset" THEN "unset" ELSE "closed"
    /\ shut_pc' = IF listen_sock = "unset" THEN "skipped" ELSE "done"
    /\ UNCHANGED <<sem, sem_error, stop_event, loop_pc, cur, conn, outcome,
                   sock_open, acquires, releases, escaped, after_raise>>
    /\ ServerFrame

\* _run_handler, lines 73-76: the handler runs; it may close the client socket
\* itself; an exception it raises is caught by `except Exception`.
RunHandler(c) ==
    /\ conn[c] = "running"
    /\ \E o \in HandlerOutcomes, closes \in BOOLEAN :
          /\ outcome' = [outcome EXCEPT ![c] = o]
          /\ sock_open' = [sock_open EXCEPT ![c] = IF closes THEN FALSE ELSE @]
          /\ escaped' = [escaped EXCEPT
                           ![c] = o # "return" /\ ~ExceptCatches(o)]
    /\ conn' = [conn EXCEPT ![c] = "handled"]
    /\ UNCHANGED <<sem, sem_error, stop_event, listen_sock, loop_pc, cur,
                   shut_pc, acquires, releases, after_raise>>
    /\ ServerFrame

\* _run_handler, lines 77-81: finally: client_sock.close() (idempotent).
CloseClientSock(c) ==
    /\ conn[c] = "handled"
    /\ sock_open' = [sock_open EXCEPT ![c] = FALSE]
    /\ conn' = [conn EXCEPT ![c] = "closed"]
    /\ UNCHANGED <<sem, sem_error, stop_event, listen_sock, loop_pc, cur,
                   shut_pc, outcome, acquires, releases, escaped, after_raise>>
    /\ ServerFrame

\* _run_handler, line 82: self._sem.release(); a BoundedSemaphore raises
\* ValueError when released above its initial value.
ReleasePermit(c) ==
    /\ conn[c] = "closed"
    /\ IF ReleaseRuns(outcome[c])
       THEN IF sem >= max_connections
            THEN /\ sem_error' = TRUE
                 /\ UNCHANGED <<sem, releases>>
            ELSE /\ sem' = sem + 1
                 /\ releases' = [releases EXCEPT ![c] = @ + 1]
                 /\ UNCHANGED sem_error
       ELSE UNCHANGED <<sem, sem_error, releases>>
    /\ conn' = [conn EXCEPT ![c] = "exited"]
    /\ UNCHANGED <<stop_event, listen_sock, loop_pc, cur, shut_pc, outcome,
                   sock_open, acquires, escaped, after_raise>>
    /\ ServerFrame

LoopStep ==
    \/ ServeStart
    \/ ServeBind
    \/ LoopCheck
    \/ \E c \in Conns : AcceptConn(c)
    \/ AcceptTimeout
    \/ AcceptOSError
    \/ TryAcquire
    \/ SpawnWorker

WorkerStep(c) ==
    \/ RunHandler(c)
    \/ CloseClientSock(c)
    \/ ReleasePermit(c)

ServerNext ==
    \/ LoopStep
    \/ ShutdownSet
    \/ ShutdownClose
    \/ \E c \in Conns : WorkerStep(c)

\* The server alone: no relay and no request handler is modelled in detail.
InitServer ==
    ServerInit /\ DataIdle /\ HandlerIdle /\ CacheIdle /\ PureIdle

SpecServer == InitServer /\ [][ServerNext]_vars

\* The thread that runs serve_forever is scheduled again and again, and an
\* accept that gets no connection times out after one second.
SpecServerFair == SpecServer /\ WF_vars(LoopStep)

(***************************************************************************)
(* Claims about ThreadedTCPServer (checked under SpecServer)               *)
(***************************************************************************)

\* Workers that have been spawned and have not yet released their permit.
InFlight == {c \in Conns : conn[c] \in {"running", "handled", "closed"}}

\* C1: in every reachable state the number of workers that have been spawned
\* and have not yet released their permit is at most max_connections.
C1_AdmissionBound == Cardinality(InFlight) <= max_connections

\* C1 witness: the server is saturated (max_connections workers in flight)
\* and a further connection has been turned away.
C1_Witness ==
    /\ Cardinality(InFlight) = max_connections
    /\ \E c \in Conns : conn[c] = "rejected"

C3_Contained ==
    /\ \A c \in Conns : ~escaped[c]
    /\ \A c \in Conns : conn[c] = "exited" => ~sock_open[c]
    /\ loop_pc \in {"stopped", "failed"} => stop_event

\* Step part of C3: a step of one connection's worker leaves the accept loop
\* and every other connection as they were.
C3_Frame ==
    \A c \in Conns :
        WorkerStep(c) =>
            /\ UNCHANGED <<loop_pc, cur, stop_event, listen_sock, shut_pc>>
            /\ \A d \in Conns \ {c} :
                  /\ conn'[d] = conn[d]
                  /\ outcome'[d] = outcome[d]
                  /\ sock_open'[d] = sock_open[d]
                  /\ escaped'[d] = escaped[d]

LoopEnded == loop_pc \in {"stopped", "failed"}

\* The loop takes no connection and starts no worker once it has ended.
C26_NoWorkerAfterStop ==
    LoopEnded =>
        /\ loop_pc' = loop_pc
        /\ \A c \in Conns :
              /\ conn[c] = "pending" => conn'[c] = "pending"
              /\ conn'[c] = "running" => conn[c] = "running"

\* C26: after shutdown() has been called the accept loop terminates in every
\* interleaving with serve_forever, the one where shutdown() runs before the
\* listening socket is stored included; and once the loop has seen the stop
\* flag it accepts no connection and spawns no worker.
C26_ShutdownStopsLoop ==
    /\ stop_event ~> LoopEnded
    /\ [][C26_NoWorkerAfterStop]_vars

\* shutdown() ran before the socket was stored and closed nothing; the loop
\* has ended all the same.
C26_Witness ==
    /\ shut_pc = "skipped"
    /\ loop_pc = "stopped"
    /\ \A c \in Conns : conn[c] = "pending"

\* The step of the accept loop that finds no permit free.
C27_RejectStep ==
    loop_pc = "acquire" /\ sem = 0 /\ loop_pc' # "acquire" =>
        /\ ~sock_open'[cur]
        /\ conn'[cur] = "rejected"
        /\ sem' = sem
        /\ {c \in Conns : conn'[c] \in {"running", "handled", "closed"}} = InFlight
        /\ loop_pc' = "check"

\* C27: a connection that reaches the acquire while all max_connections
\* permits are held has its socket closed and gets no worker, then or later;
\* the permits held and the workers in flight stay as they were; the acquire
\* does not block and the loop goes on to its next check and accept.
C27_RejectedWhenSaturated ==
    /\ [](loop_pc = "acquire" => ENABLED TryAcquire)
    /\ [][C27_RejectStep]_vars
    /\ [][\A c \in Conns : conn[c] = "rejected" =>
              conn'[c] = "rejected" /\ ~sock_open'[c]]_vars

\* A connection has been turned away with every permit held, and the loop is
\* at its next accept.
C27_Witness ==
    /\ sem = 0
    /\ Cardinality(InFlight) = max_connections
    /\ \E c \in Conns : conn[c] = "rejected" /\ ~sock_open[c]
    /\ cur = 0
    /\ loop_pc = "accept"

(***************************************************************************)
(* Byte sequences and segmentation policies                                *)
(***************************************************************************)

\* Largest chunk_size / min_chunk / max_chunk value of a policy.
MaxChunk == 3

\* Longest request body given to _send_body_with_policy.
MaxBody == 8

\* chunk_size used when the policy's chunk_size is not positive.
DefaultChunk == 1024

Min(a, b) == IF a <= b THEN a ELSE b

\* A byte sequence of n bytes; byte i carries the value i, so that a lost,
\* duplicated or reordered byte changes the sequence.
Stream(n) == [i \in 1..n |-> i]

\* Concatenation, in order, of a sequence of byte sequences.
RECURSIVE Concat(_)
Concat(ss) == IF ss = <<>> THEN <<>> ELSE Head(ss) \o Concat(Tail(ss))

IsPrefix(p, q) == Len(p) <= Len(q) /\ SubSeq(q, 1, Len(p)) = p

\* Python's data[i : i + size] on a bytes object (0-based i).
SliceDroppingLastByte(data, i, size) ==
    SubSeq(data, i + 1, Min(i + size, Len(data)) - 1)

SliceOverlapping(data, i, size) ==
    SubSeq(data, IF i = 0 THEN 1 ELSE i, Min(i + size, Len(data)))

Slice(data, i, size) == SubSeq(data, i + 1, Min(i + size, Len(data)))

Modes == {"direct", "segment_upstream", "other"}

Strategies == {"none", "fixed", "random", "other"}

\* Values of an int field; 0 stands for every value <= 0.
ChunkValues == 0..MaxChunk

\* Values of an optional int field.
OptValues == {None} \cup ChunkValues

\* SegmentationPolicy: every combination of field values (segmentation.py
\* validates nothing at construction).  time.sleep(delay_ms) changes no state
\* of the model, so delay_ms stays 0.
Policies ==
    [mode : Modes, strategy : Strategies, chunk_size : ChunkValues,
     delay_ms : {0}, min_chunk : OptValues, max_chunk : OptValues]

(***************************************************************************)
(* handlers.py: _send_body_with_policy                                     *)
(***************************************************************************)

\* line 263: no segmentation applies.
NoSegmentation(pol) == pol.mode # "segment_upstream" \/ pol.strategy = "none"

\* line 268: chunk_size = policy.chunk_size if policy.chunk_size > 0 else 1024
BodyChunkSize(pol) == IF pol.chunk_size > 0 THEN pol.chunk_size ELSE DefaultChunk

\* lines 284-290: the random bounds are absent or inconsistent.
BodyBoundsRejected(pol) ==
    \/ pol.min_chunk = None
    \/ pol.max_chunk = None
    \/ pol.min_chunk <= 0
    \/ pol.max_chunk <= 0
    \/ pol.min_chunk > pol.max_chunk

\* Which loop _send_body_with_policy runs for a non-empty body (lines 263-305).
BodyLoop(pol) ==
    IF NoSegmentation(pol) THEN "whole"
    ELSE IF pol.strategy = "fixed" THEN "fixed"
    ELSE IF pol.strategy = "random"
         THEN IF BodyBoundsRejected(pol) THEN "fixed" ELSE "random"
    ELSE "fixed"

\* random.randint(min_chunk, max_chunk): any size between the bounds, inclusive.
RandomSizesFromZero(pol) == 0..pol.max_chunk

RandomSizes(pol) == pol.min_chunk..pol.max_chunk

\* A sendall that raises has sent some strict prefix of its argument.
PartialWrites(part) == {SubSeq(part, 1, k) : k \in 0..(Len(part) - 1)}

\* The data-path steps leave the state of the other parts alone.
DataFrame ==
    UNCHANGED <<server_vars, handler_vars, cache_vars, engine_vars, hostpolicy_vars,
                later_vars>>

BodyFrame == DataFrame /\ UNCHANGED tunnel_vars

BodyInit ==
    /\ ServerInit
    /\ scenario = "body"
    /\ policy \in Policies
    /\ body \in {Stream(n) : n \in 0..MaxBody}
    /\ b_pc = "start"
    /\ b_idx = 0
    /\ b_writes = <<>>
    /\ b_wire = <<>>
    /\ TunnelIdle

\* lines 260-305 up to the first sendall: return on an empty body, else pick
\* the loop.
BodyDispatch ==
    /\ scenario = "body"
    /\ b_pc = "start"
    /\ b_pc' = IF body = <<>> THEN "done" ELSE BodyLoop(policy)
    /\ UNCHANGED <<scenario, policy, body, b_idx, b_writes, b_wire>>
    /\ BodyFrame

\* One sock.sendall(part): it returns after sending all of part, or raises
\* after sending a strict prefix of it; the exception leaves the function.
BodySendall(part, next_idx, more) ==
    \/ /\ b_writes' = Append(b_writes, part)
       /\ b_wire' = b_wire \o part
       /\ b_idx' = next_idx
       /\ b_pc' = IF more THEN b_pc ELSE "done"
    \/ \E sent \in PartialWrites(part) :
          /\ b_wire' = b_wire \o sent
          /\ b_pc' = "raised"
          /\ UNCHANGED <<b_idx, b_writes>>

\* line 264: sock.sendall(body)
BodySendWhole ==
    /\ scenario = "body"
    /\ b_pc = "whole"
    /\ BodySendall(body, Len(body), FALSE)
    /\ UNCHANGED <<scenario, policy, body>>
    /\ BodyFrame

\* lines 270-275, send_fixed: for i in range(0, len(body), size)
BodySendFixed ==
    /\ scenario = "body"
    /\ b_pc = "fixed"
    /\ LET size == BodyChunkSize(policy)
       IN  BodySendall(Slice(body, b_idx, size), b_idx + size,
                       b_idx + size < Len(body))
    /\ UNCHANGED <<scenario, policy, body>>
    /\ BodyFrame

\* lines 294-303: while idx < body_len, with size = random.randint(min, max)
BodySendRandom ==
    /\ scenario = "body"
    /\ b_pc = "random"
    /\ \E size \in RandomSizes(policy) :
          BodySendall(Slice(body, b_idx, size), b_idx + size,
                      b_idx + size < Len(body))
    /\ UNCHANGED <<scenario, policy, body>>
    /\ BodyFrame

BodyNext ==
    \/ BodyDispatch
    \/ BodySendWhole
    \/ BodySendFixed
    \/ BodySendRandom

(***************************************************************************)
(* tunnel.py: relay_tunnel and the relays it runs                          *)
(***************************************************************************)

\* Longest byte stream the client delivers into a tunnel.
MaxStream == 4

\* Longest byte stream the upstream delivers into a tunnel.
MaxUp == 2

\* Most bytes one recv returns (recv(4096), scaled down).
RecvMax == 3

\* idle_timeout, in seconds (ticks of the 1 s select timeout).
idle_timeout == 1

Other(side) == IF side = "client" THEN "upstream" ELSE "client"

\* The policies a tunnel is run with: every strategy, chunk size and pair of
\* random bounds under segment_upstream; two policies for each other mode.
TunnelPolicies ==
    {p \in Policies :
        /\ p.strategy = "random" => p.chunk_size = 2
        /\ p.strategy # "random" => p.min_chunk = None /\ p.max_chunk = None
        /\ p.mode # "segment_upstream" =>
              p.strategy \in {"none", "fixed"} /\ p.chunk_size = 2}

\* relay_tunnel, lines 194-256: the relay run for the client -> upstream flow.
RelayKind(pol) ==
    IF pol.mode = "direct" THEN "bidirectional"
    ELSE IF pol.mode # "segment_upstream" THEN "bidirectional"
    ELSE IF pol.strategy = "none" THEN "bidirectional"
    ELSE IF pol.strategy = "fixed" THEN "fixed"
    ELSE IF pol.strategy = "random"
         THEN IF pol.min_chunk = None \/ pol.max_chunk = None
              THEN "fixed" ELSE "random"
    ELSE "fixed"

\* relay_client_to_upstream_segmented, lines 112-113.
TunnelChunkSizeAlwaysDefault(pol) == DefaultChunk

TunnelChunkSize(pol) ==
    IF pol.chunk_size <= 0 THEN DefaultChunk ELSE pol.chunk_size

\* relay_client_to_upstream_random_segmented, line 152.
RandomBoundsRejected(pol) ==
    pol.min_chunk <= 0 \/ pol.max_chunk <= 0 \/ pol.min_chunk > pol.max_chunk

\* What one recv(4096) on a connected socket can return as data: a non-empty
\* prefix of what the peer has yet to deliver.
RecvData(side) ==
    {SubSeq(t_in[side], 1, k) : k \in 1..Min(RecvMax, Len(t_in[side]))}

\* recv returned data from side.
Received(side, data) ==
    /\ t_in' = [t_in EXCEPT ![side] = SubSeq(@, Len(data) + 1, Len(@))]
    /\ t_read' = [t_read EXCEPT ![side] = @ \o data]

\* sendall(part) to side returned.
Sent(side, part) ==
    /\ t_written' = [t_written EXCEPT ![side] = @ \o part]
    /\ UNCHANGED t_werr

\* sendall(part) to side raised OSError after sending a strict prefix.
SendFailed(side, part) ==
    \E sent \in PartialWrites(part) :
        /\ t_written' = [t_written EXCEPT ![side] = @ \o sent]
        /\ t_werr' = [t_werr EXCEPT ![side] = TRUE]

\* The relay run by relay_tunnel returns: relay_bidirectional returns to the
\* caller of relay_tunnel, a segmented relay to relay_tunnel's finally block.
MainReturns(why) ==
    /\ m_exit' = why
    /\ m_pc' = IF RelayKind(policy) = "bidirectional" THEN "returned"
               ELSE "finally"

TunnelFrame == DataFrame /\ UNCHANGED <<scenario, policy, body_vars>>

TunnelInit ==
    /\ ServerInit
    /\ scenario = "tunnel"
    /\ policy \in TunnelPolicies
    /\ body = <<>>
    /\ b_pc = "idle"
    /\ b_idx = 0
    /\ b_writes = <<>>
    /\ b_wire = <<>>
    /\ \E n \in 0..MaxStream, k \in 0..MaxUp :
          t_in = [x \in Sides |-> IF x = "client" THEN Stream(n) ELSE Stream(k)]
    /\ t_read = [x \in Sides |-> <<>>]
    /\ t_written = [x \in Sides |-> <<>>]
    /\ t_werr = [x \in Sides |-> FALSE]
    /\ m_pc = "dispatch"
    /\ m_buf = <<>>
    /\ m_idx = 0
    /\ m_slices = <<>>
    /\ m_exit = "none"
    /\ readable = <<>>
    /\ idle_ticks = 0
    /\ stop = FALSE
    /\ r_pc = "none"
    /\ r_buf = <<>>
    /\ socks_closed = FALSE

\* relay_tunnel, lines 194-256: run relay_bidirectional, or start the
\* _relay_oneway thread (upstream -> client) and enter a segmented relay.
TunnelDispatch ==
    /\ scenario = "tunnel"
    /\ m_pc = "dispatch"
    /\ LET kind == RelayKind(policy)
       IN  /\ m_pc' = CASE kind = "bidirectional" -> "bi_top"
                        [] kind = "fixed" -> "seg_check"
                        [] OTHER -> "rnd_entry"
           /\ r_pc' = IF kind = "bidirectional" THEN "none" ELSE "check"
    /\ UNCHANGED <<flow_vars, m_buf, m_idx, m_slices, m_exit, readable,
                   idle_ticks, r_buf, stop, socks_closed>>
    /\ TunnelFrame

(* ---- relay_bidirectional ---------------------------------------------- *)

\* lines 40-43: return when idle for longer than idle_timeout.
BiTop ==
    /\ m_pc = "bi_top"
    /\ IF idle_ticks > idle_timeout
       THEN MainReturns("idle")
       ELSE m_pc' = "bi_select" /\ UNCHANGED m_exit
    /\ UNCHANGED <<flow_vars, m_buf, m_idx, m_slices, readable, idle_ticks,
                   reader_vars, stop, socks_closed>>
    /\ TunnelFrame

\* lines 45-47: select over [a, b] with a 1 s timeout: an exceptional socket,
\* some readable sockets (in list order), or nothing after one second.
BiSelect ==
    /\ m_pc = "bi_select"
    /\ \/ MainReturns("exceptional") /\ UNCHANGED <<readable, idle_ticks>>
       \/ /\ readable' \in {<<"client">>, <<"upstream">>,
                            <<"client", "upstream">>}
          /\ m_pc' = "bi_recv"
          /\ UNCHANGED <<m_exit, idle_ticks>>
       \/ /\ idle_ticks' = Min(idle_ticks + 1, idle_timeout + 1)
          /\ m_pc' = "bi_top"
          /\ UNCHANGED <<m_exit, readable>>
    /\ UNCHANGED <<flow_vars, m_buf, m_idx, m_slices, reader_vars, stop,
                   socks_closed>>
    /\ TunnelFrame

\* lines 49-61: src.recv(4096) for the next readable socket.
BiRecv ==
    /\ m_pc = "bi_recv"
    /\ LET src == Head(readable)
       IN  \/ \E data \in RecvData(src) :
                 /\ Received(src, data)
                 /\ m_buf' = data
                 /\ idle_ticks' = 0
                 /\ m_pc' = "bi_send"
                 /\ UNCHANGED <<m_exit, readable>>
           \/ /\ readable' = Tail(readable)
              /\ m_pc' = IF Tail(readable) = <<>> THEN "bi_top" ELSE "bi_recv"
              /\ UNCHANGED <<t_in, t_read, m_buf, m_exit, idle_ticks>>
           \/ /\ MainReturns("read_error")
              /\ UNCHANGED <<t_in, t_read, m_buf, readable, idle_ticks>>
           \/ /\ t_in[src] = <<>>
              /\ MainReturns("eof")
              /\ UNCHANGED <<t_in, t_read, m_buf, readable, idle_ticks>>
    /\ UNCHANGED <<t_written, t_werr, m_idx, m_slices, reader_vars, stop,
                   socks_closed>>
    /\ TunnelFrame

\* lines 63-66: dst.sendall(data)
BiSend ==
    /\ m_pc = "bi_send"
    /\ LET dst == Other(Head(readable))
       IN  \/ /\ Sent(dst, m_buf)
              /\ readable' = Tail(readable)
              /\ m_pc' = IF Tail(readable) = <<>> THEN "bi_top" ELSE "bi_recv"
              /\ UNCHANGED m_exit
           \/ /\ SendFailed(dst, m_buf)
              /\ MainReturns("write_error")
              /\ UNCHANGED readable
    /\ UNCHANGED <<t_in, t_read, m_buf, m_idx, m_slices, idle_ticks,
                   reader_vars, stop, socks_closed>>
    /\ TunnelFrame

(* ---- segmented relays, client -> upstream ----------------------------- *)

\* `while not stop.is_set()` of a segmented relay.
LoopHead(recv_pc) ==
    /\ IF stop
       THEN MainReturns("stop")
       ELSE m_pc' = recv_pc /\ UNCHANGED m_exit
    /\ UNCHANGED <<flow_vars, m_buf, m_idx, m_slices, readable, idle_ticks,
                   reader_vars, stop, socks_closed>>

\* data = client.recv(4096) of a segmented relay: data, a timeout (continue),
\* OSError (return) or end of stream (return).
ClientRecv(check_pc, send_pc) ==
    /\ \/ \E data \in RecvData("client") :
             /\ Received("client", data)
             /\ m_buf' = data
             /\ m_idx' = 0
             /\ m_slices' = <<>>
             /\ m_pc' = send_pc
             /\ UNCHANGED m_exit
       \/ /\ m_pc' = check_pc
          /\ UNCHANGED <<t_in, t_read, m_buf, m_idx, m_slices, m_exit>>
       \/ /\ MainReturns("read_error")
          /\ UNCHANGED <<t_in, t_read, m_buf, m_idx, m_slices>>
       \/ /\ t_in["client"] = <<>>
          /\ MainReturns("eof")
          /\ UNCHANGED <<t_in, t_read, m_buf, m_idx, m_slices>>
    /\ UNCHANGED <<t_written, t_werr, readable, idle_ticks, reader_vars, stop,
                   socks_closed>>

\* upstream.sendall(part) for the slice of `size` bytes at m_idx, then the
\* next slice of data, or back to the loop head when data is used up.
SendSlice(size, check_pc) ==
    /\ LET part == Slice(m_buf, m_idx, size)
       IN  \/ /\ Sent("upstream", part)
              /\ m_slices' = Append(m_slices, part)
              /\ m_idx' = m_idx + size
              /\ m_pc' = IF m_idx + size < Len(m_buf) THEN m_pc ELSE check_pc
              /\ UNCHANGED m_exit
           \/ /\ SendFailed("upstream", part)
              /\ MainReturns("write_error")
              /\ UNCHANGED <<m_idx, m_slices>>
    /\ UNCHANGED <<t_in, t_read, m_buf, readable, idle_ticks, reader_vars,
                   stop, socks_closed>>

\* relay_client_to_upstream_segmented, line 115.
SegCheck == m_pc = "seg_check" /\ LoopHead("seg_recv") /\ TunnelFrame

\* relay_client_to_upstream_segmented, lines 116-124.
SegRecv == m_pc = "seg_recv" /\ ClientRecv("seg_check", "seg_send") /\ TunnelFrame

\* relay_client_to_upstream_segmented, lines 126-133.
SegSend ==
    /\ m_pc = "seg_send"
    /\ SendSlice(TunnelChunkSize(policy), "seg_check")
    /\ TunnelFrame

\* relay_client_to_upstream_random_segmented, lines 152-153: return at once
\* when the bounds are inconsistent.
RndEntry ==
    /\ m_pc = "rnd_entry"
    /\ IF RandomBoundsRejected(policy)
       THEN MainReturns("bounds")
       ELSE m_pc' = "rnd_check" /\ UNCHANGED m_exit
    /\ UNCHANGED <<flow_vars, m_buf, m_idx, m_slices, readable, idle_ticks,
                   reader_vars, stop, socks_closed>>
    /\ TunnelFrame

\* relay_client_to_upstream_random_segmented, line 155.
RndCheck == m_pc = "rnd_check" /\ LoopHead("rnd_recv") /\ TunnelFrame

\* relay_client_to_upstream_random_segmented, lines 156-167.
RndRecv == m_pc = "rnd_recv" /\ ClientRecv("rnd_check", "rnd_send") /\ TunnelFrame

\* relay_client_to_upstream_random_segmented, lines 168-177.
RndSend ==
    /\ m_pc = "rnd_send"
    /\ \E size \in RandomSizes(policy) :
          SendSlice(size, "rnd_check")
    /\ TunnelFrame

(* ---- relay_tunnel's finally block and the handler's teardown ---------- *)

\* relay_tunnel, line 258: stop.set()
SetStop ==
    /\ m_pc = "finally"
    /\ stop' = TRUE
    /\ m_pc' = "join"
    /\ UNCHANGED <<flow_vars, m_buf, m_idx, m_slices, m_exit, readable,
                   idle_ticks, reader_vars, socks_closed>>
    /\ TunnelFrame

\* relay_tunnel, line 259: t.join(timeout=1.0) returns when the thread has
\* ended or one second has passed.
JoinReader ==
    /\ m_pc = "join"
    /\ m_pc' = "returned"
    /\ UNCHANGED <<flow_vars, m_buf, m_idx, m_slices, m_exit, readable,
                   idle_ticks, reader_vars, stop, socks_closed>>
    /\ TunnelFrame

\* After relay_tunnel: handle_connect_tunnel closes the upstream socket
\* (handlers.py 246-250) and _run_handler the client socket (server.py 79).
CloseSockets ==
    /\ m_pc = "returned"
    /\ ~socks_closed
    /\ socks_closed' = TRUE
    /\ UNCHANGED <<flow_vars, main_vars, reader_vars, stop>>
    /\ TunnelFrame

(* ---- _relay_oneway, upstream -> client -------------------------------- *)

\* A reader whose loop condition never sees the stop flag
ReaderNeverSeesStop(flag) == FALSE

\* _relay_oneway, line 79: stop.is_set()
ReaderSeesStop(flag) == flag

\* line 79: while not stop.is_set()
ReaderCheck ==
    /\ r_pc = "check"
    /\ r_pc' = IF ReaderSeesStop(stop) THEN "ended" ELSE "recv"
    /\ UNCHANGED <<flow_vars, main_vars, r_buf, stop, socks_closed>>
    /\ TunnelFrame

\* lines 80-88: data = src.recv(4096); on a closed socket recv raises OSError.
ReaderRecv ==
    /\ r_pc = "recv"
    /\ \/ /\ ~socks_closed
          /\ \E data \in RecvData("upstream") :
                /\ Received("upstream", data)
                /\ r_buf' = data
                /\ r_pc' = "send"
       \/ /\ ~socks_closed
          /\ r_pc' = "check"
          /\ UNCHANGED <<t_in, t_read, r_buf>>
       \/ /\ r_pc' = "ended"
          /\ UNCHANGED <<t_in, t_read, r_buf>>
       \/ /\ ~socks_closed
          /\ t_in["upstream"] = <<>>
          /\ r_pc' = "ended"
          /\ UNCHANGED <<t_in, t_read, r_buf>>
    /\ UNCHANGED <<t_written, t_werr, main_vars, stop, socks_closed>>
    /\ TunnelFrame

\* lines 90-93: dst.sendall(data); on a closed socket sendall raises OSError
\* without sending.
ReaderSend ==
    /\ r_pc = "send"
    /\ \/ /\ ~socks_closed
          /\ Sent("client", r_buf)
          /\ r_pc' = "check"
       \/ /\ ~socks_closed
          /\ SendFailed("client", r_buf)
          /\ r_pc' = "ended"
       \/ /\ socks_closed
          /\ t_werr' = [t_werr EXCEPT !["client"] = TRUE]
          /\ r_pc' = "ended"
          /\ UNCHANGED t_written
    /\ UNCHANGED <<t_in, t_read, main_vars, r_buf, stop, socks_closed>>
    /\ TunnelFrame

TunnelNext ==
    \/ TunnelDispatch
    \/ BiTop
    \/ BiSelect
    \/ BiRecv
    \/ BiSend
    \/ SegCheck
    \/ SegRecv
    \/ SegSend
    \/ RndEntry
    \/ RndCheck
    \/ RndRecv
    \/ RndSend
    \/ SetStop
    \/ JoinReader
    \/ CloseSockets
    \/ ReaderCheck
    \/ ReaderRecv
    \/ ReaderSend

DataInit == (BodyInit \/ TunnelInit) /\ HandlerIdle /\ CacheIdle /\ PureIdle

DataNext == BodyNext \/ TunnelNext

\* _send_body_with_policy on every body and policy, and relay_tunnel on every
\* tunnel policy and pair of streams.
SpecData == DataInit /\ [][DataNext]_vars

\* The steps of the worker thread that runs relay_tunnel, and after it the
\* handler's teardown.
MainStep ==
    \/ TunnelDispatch
    \/ BiTop \/ BiSelect \/ BiRecv \/ BiSend
    \/ SegCheck \/ SegRecv \/ SegSend
    \/ RndEntry \/ RndCheck \/ RndRecv \/ RndSend
    \/ SetStop \/ JoinReader \/ CloseSockets

\* The steps of the _relay_oneway thread.
ReaderStep == ReaderCheck \/ ReaderRecv \/ ReaderSend

\* select([a, b], [], [a, b], 1.0) returns after one second with nothing.
SelectTimesOut == BiSelect /\ m_pc' = "bi_top"

\* The tunnels whose end is looked at: one policy for each relay that
\* relay_tunnel chooses (relay_bidirectional, fixed, random), and at most
\* MaxUp bytes from each peer.
LivePolicies ==
    {p \in TunnelPolicies :
        \/ p.mode = "direct" /\ p.strategy = "none"
        \/ p.mode = "segment_upstream" /\ p.strategy = "fixed" /\ p.chunk_size = 1
        \/ /\ p.mode = "segment_upstream" /\ p.strategy = "random"
           /\ p.min_chunk = 1 /\ p.max_chunk = 2}

TunnelLiveInit ==
    /\ TunnelInit
    /\ HandlerIdle
    /\ CacheIdle
    /\ PureIdle
    /\ policy \in LivePolicies
    /\ Len(t_in["client"]) <= MaxUp

\* Both threads keep being scheduled (every recv, sendall, select and join
\* has a timeout, so each of their steps ends), and the peers have only
\* finitely much to say, so a select that is called again and again times
\* out again and again.
SpecTunnelFair ==
    /\ TunnelLiveInit
    /\ [][TunnelNext]_vars
    /\ WF_vars(MainStep)
    /\ WF_vars(ReaderStep)
    /\ SF_vars(SelectTimesOut)

(***************************************************************************)
(* Claims about the data path (checked under SpecData)                     *)
(***************************************************************************)

\* The flow of bytes towards dst has ended: the relay run by relay_tunnel has
\* returned (client -> upstream, and both directions of relay_bidirectional),
\* or the _relay_oneway thread has ended (upstream -> client).
FlowEnded(dst) ==
    IF dst = "upstream" \/ RelayKind(policy) = "bidirectional"
    THEN m_pc \in {"finally", "join", "returned"}
    ELSE r_pc = "ended"

\* C4: in every relay mode and in each direction the bytes written to the
\* destination are at every moment a prefix of the bytes read from the source
\* (nothing duplicated or reordered), and when the flow has ended without a
\* write error every byte read has been written.
C4_RelayPreservesBytes ==
    scenario = "tunnel" =>
        \A dst \in Sides :
            /\ IsPrefix(t_written[dst], t_read[Other(dst)])
            /\ (FlowEnded(dst) /\ ~t_werr[dst]) =>
                   t_written[dst] = t_read[Other(dst)]

\* C4 witness: a random-segmented tunnel has ended with both streams read to
\* their end and delivered in full.
C4_Witness ==
    /\ scenario = "tunnel"
    /\ RelayKind(policy) = "random"
    /\ m_pc = "returned" /\ r_pc = "ended"
    /\ ~t_werr["client"] /\ ~t_werr["upstream"]
    /\ t_read["client"] = Stream(MaxStream)
    /\ t_written["upstream"] = Stream(MaxStream)
    /\ t_read["upstream"] = Stream(MaxUp)
    /\ t_written["client"] = Stream(MaxUp)

\* C5: for every body and policy the writes _send_body_with_policy makes,
\* concatenated in order, equal the body; when no segmentation applies a
\* non-empty body is sent in exactly one write; an empty body causes no write.
C5_BodyDelivered ==
    scenario = "body" =>
        /\ IsPrefix(b_wire, body)
        /\ body = <<>> => b_writes = <<>> /\ b_wire = <<>>
        /\ b_pc = "done" =>
              /\ Concat(b_writes) = body
              /\ b_wire = body
              /\ (policy.mode # "segment_upstream" \/ policy.strategy = "none")
                    => b_writes = IF body = <<>> THEN <<>> ELSE <<body>>

\* C5 witness: a body of MaxBody bytes has been sent in several writes under
\* an unknown strategy.
C5_Witness ==
    /\ scenario = "body"
    /\ b_pc = "done"
    /\ policy.mode = "segment_upstream" /\ policy.strategy = "other"
    /\ Len(body) = MaxBody
    /\ Len(b_writes) > 1
    /\ Concat(b_writes) = body

\* slices are consecutive slices of data of exactly k bytes, except that the
\* final slice of data holds the remaining 1..k bytes.
FixedSliced(data, slices, k, complete) ==
    /\ IsPrefix(Concat(slices), data)
    /\ \A i \in 1..Len(slices) : Len(slices[i]) \in 1..k
    /\ \A i \in 1..(Len(slices) - 1) : Len(slices[i]) = k
    /\ (slices # <<>> /\ Len(slices[Len(slices)]) < k) => Concat(slices) = data
    /\ complete => Concat(slices) = data

\* In a tunnel, every slice of the current buffer has been sent.
BufferDone(send_pc) == m_pc # send_pc /\ m_exit # "write_error"

\* C6: under segment_upstream with strategy fixed and chunk_size k > 0, the
\* data being sliced (the request body; each buffer read from the client in a
\* tunnel) is written as consecutive slices of exactly k bytes, except the
\* final slice, which holds the remaining 1..k bytes.
C6_FixedSlices ==
    (/\ policy.mode = "segment_upstream"
     /\ policy.strategy = "fixed"
     /\ policy.chunk_size > 0) =>
        /\ scenario = "body" =>
              FixedSliced(body, b_writes, policy.chunk_size, b_pc = "done")
        /\ scenario = "tunnel" =>
              FixedSliced(m_buf, m_slices, policy.chunk_size,
                          BufferDone("seg_send"))

\* C6 witness: an 8-byte body with chunk_size 3 has been written as slices of
\* 3, 3 and 2 bytes.
C6_Witness ==
    /\ scenario = "body"
    /\ policy.mode = "segment_upstream" /\ policy.strategy = "fixed"
    /\ policy.chunk_size = 3
    /\ Len(body) = 8
    /\ b_pc = "done"
    /\ b_writes = <<SubSeq(body, 1, 3), SubSeq(body, 4, 6), SubSeq(body, 7, 8)>>

\* slices are slices of data of 1..hi bytes each, all but the final slice of
\* data of lo..hi bytes, at most one per byte of data.
RandomSliced(data, slices, lo, hi, complete) ==
    /\ IsPrefix(Concat(slices), data)
    /\ \A i \in 1..Len(slices) : Len(slices[i]) \in 1..hi
    /\ \A i \in 1..(Len(slices) - 1) : Len(slices[i]) \in lo..hi
    /\ (slices # <<>> /\ Len(slices[Len(slices)]) < lo) => Concat(slices) = data
    /\ Len(slices) <= Len(data)
    /\ complete => Concat(slices) = data

\* C7: under strategy random with 0 < min_chunk <= max_chunk every slice has
\* 1..max_chunk bytes, every slice but the last of the data being sliced has
\* min_chunk..max_chunk bytes, and the slicing loop ends, after at most one
\* iteration per byte, with all the data consumed, whatever the draws.
C7_RandomSlices ==
    (/\ policy.mode = "segment_upstream"
     /\ policy.strategy = "random"
     /\ policy.min_chunk # None /\ policy.max_chunk # None
     /\ 0 < policy.min_chunk /\ policy.min_chunk <= policy.max_chunk) =>
        /\ scenario = "body" =>
              /\ RandomSliced(body, b_writes, policy.min_chunk,
                              policy.max_chunk, b_pc = "done")
              /\ b_pc \notin {"fixed", "whole"}
              /\ b_pc = "random" => b_idx < Len(body)
        /\ scenario = "tunnel" =>
              /\ RandomSliced(m_buf, m_slices, policy.min_chunk,
                              policy.max_chunk, BufferDone("rnd_send"))
              /\ m_pc \notin {"seg_check", "seg_recv", "seg_send"}
              /\ m_pc = "rnd_send" => m_idx < Len(m_buf)

\* C7 witness: a tunnel buffer of RecvMax bytes has been sent in random slices,
\* the last one shorter than min_chunk.
C7_Witness ==
    /\ scenario = "tunnel"
    /\ policy.strategy = "random"
    /\ policy.min_chunk = 2 /\ policy.max_chunk = MaxChunk
    /\ Len(m_buf) = RecvMax
    /\ m_pc = "rnd_check"
    /\ Len(m_slices) = 2
    /\ Len(m_slices[2]) < policy.min_chunk
    /\ Concat(m_slices) = m_buf

\* C8: under strategy random, whenever the bounds are absent or inconsistent,
\* the HTTP body sender and the CONNECT tunnel relay both behave as strategy
\* fixed with the policy's chunk_size: the client-to-upstream data is still
\* relayed, in chunk_size slices.
C8_RandomFallsBackToFixed ==
    (/\ policy.mode = "segment_upstream"
     /\ policy.strategy = "random"
     /\ policy.chunk_size > 0
     /\ \/ policy.min_chunk = None
        \/ policy.max_chunk = None
        \/ policy.min_chunk <= 0
        \/ policy.max_chunk <= 0
        \/ policy.min_chunk > policy.max_chunk) =>
        /\ scenario = "body" =>
              FixedSliced(body, b_writes, policy.chunk_size, b_pc = "done")
        /\ scenario = "tunnel" =>
              /\ ~(m_exit = "bounds" /\ t_in["client"] # <<>>)
              /\ FixedSliced(m_buf, m_slices, policy.chunk_size,
                             BufferDone("seg_send"))

(***************************************************************************)
(* handlers.py: handle_connect_tunnel and handle_http_forward              *)
(*                                                                         *)
(* One request is handled per connection (main.py, handle_client).  The    *)
(* results of check_host_policy and of SegmentationEngine.decide are       *)
(* inputs; relay_tunnel is reduced to the buffers it moves either way.     *)
(***************************************************************************)

\* Buffers relay_tunnel, or the response loop, moves within one request.
MaxRelay == 2

\* One write to the client: an HTTP status line with its message.  A relayed
\* buffer of bytes is written as status 0.
Resp(status, message) == [status |-> status, message |-> message]

Established == Resp(200, "Connection established")

DataBuf == Resp(0, "<bytes>")

\* PolicyDecision values check_host_policy returns (policy.py).
PolicyDecisions ==
    {[allowed |-> TRUE, reason |-> ""],
     [allowed |-> FALSE, reason |-> "Blocked private/loopback/reserved address"],
     [allowed |-> FALSE, reason |-> "Blocked by deny rule: example.com"],
     [allowed |-> FALSE, reason |-> "Not in allow list"]}

\* SegmentationDecision values decide returns: the action, the matched rule's
\* reason (None, empty or a text) and whether an upstream address is set.
Decisions ==
    [action : {"direct", "upstream", "block"},
     reason : {NoneStr, "", "test"},
     upstream : BOOLEAN]

PolicyAllowsAlways(pd) == TRUE

\* `if not decision.allowed` is not taken.
PolicyAllows(pd) == pd.allowed

\* decision.reason or "Blocked by segmentation rule"
BlockReason(dec) ==
    IF dec.reason \in {NoneStr, ""} THEN "Blocked by segmentation rule"
    ELSE dec.reason

HandshakeAnyStatus(code) == TRUE

\* perform_upstream_connect returns code == 200; an empty or unparsable
\* response (code "") returns False.
HandshakeOk(code) == code = "200"

\* Status codes an upstream proxy answers a CONNECT with; "" stands for no
\* response, a timeout, or a status line that does not parse.
HandshakeCodes == {"200", "407", ""}

\* What open_upstream / socket.create_connection does: a connected socket,
\* or one of the exceptions the handlers map, or any other exception.
OpenOutcomes == {"ok", "gaierror", "TimeoutError", "OSError", "other"}

\* The resolver make_settings builds (main.py): SystemResolver or
\* PlainDnsResolver, each possibly wrapped in a CachingResolver.
ResolverKinds == {"system", "plain", "caching(system)", "caching(plain)"}

\* The exception resolver.resolve raises when the name does not resolve:
\* socket.gaierror from getaddrinfo (SystemResolver); ValueError from
\* PlainDnsResolver, for no answers and for every query error or timeout.  A
\* CachingResolver lets its inner resolver's exception through.
ResolveFailure(kind) ==
    IF kind \in {"plain", "caching(plain)"} THEN "ValueError" ELSE "gaierror"

\* What open_upstream does: resolve, then connect to each address in turn and
\* return the first connected socket or raise the last OSError.
OpenUpstreamOutcomes(kind) ==
    {"ok", ResolveFailure(kind), "TimeoutError", "OSError"}

\* Ways a write to a socket fails.
WriteErrors == {"TimeoutError", "OSError"}

Logged(call) == \E i \in 1..Len(h_log) : h_log[i] = call

HandlerFrame ==
    UNCHANGED <<server_vars, data_vars, cache_vars, engine_vars, hostpolicy_vars,
                later_vars>>

HandlerInit ==
    /\ ServerInit
    /\ DataIdle
    /\ CacheIdle
    /\ PureIdle
    /\ h_kind \in {"connect", "http"}
    /\ resolver \in ResolverKinds
    /\ h_pc = "start"
    /\ policy_decision \in PolicyDecisions
    /\ decision \in Decisions
    /\ h_log = <<>>
    /\ client_out = <<>>
    /\ up_sock = "none"
    /\ up_out = <<>>
    /\ forwarded = 0

\* send_http_error(client_sock, status, message) followed by return, outside
\* any try block: the response is written and the handler returns, or sendall
\* raises and the exception leaves the handler.
SendErrorAndReturn(status, message) ==
    \E ok \in BOOLEAN :
        /\ client_out' = IF ok THEN Append(client_out, Resp(status, message))
                         ELSE client_out
        /\ h_pc' = IF ok THEN "done" ELSE "send_raised"

----
\* handle_connect_tunnel

\* parse_connect_target(target); 400 when it raises.
ConnectParse ==
    /\ h_kind = "connect" /\ h_pc = "start"
    /\ \E parsed \in BOOLEAN :
          IF parsed
          THEN h_pc' = "policy" /\ UNCHANGED client_out
          ELSE SendErrorAndReturn(400, "CONNECT target must be host:port")
    /\ UNCHANGED <<h_kind, resolver, policy_decision, decision, h_log, up_sock, up_out,
                   forwarded>>
    /\ HandlerFrame

\* check_host_policy; 403 with the policy's reason when it denies.
ConnectPolicy ==
    /\ h_kind = "connect" /\ h_pc = "policy"
    /\ h_log' = Append(h_log, "check_host_policy")
    /\ IF PolicyAllows(policy_decision)
       THEN h_pc' = "decide" /\ UNCHANGED client_out
       ELSE SendErrorAndReturn(403, "Forbidden: " \o policy_decision.reason)
    /\ UNCHANGED <<h_kind, resolver, policy_decision, decision, up_sock, up_out,
                   forwarded>>
    /\ HandlerFrame

\* engine.decide; 403 for action block; 502 for action upstream with no
\* upstream address.
ConnectDecide ==
    /\ h_kind = "connect" /\ h_pc = "decide"
    /\ h_log' = Append(h_log, "decide")
    /\ IF decision.action = "block"
       THEN SendErrorAndReturn(403, "Forbidden: " \o BlockReason(decision))
       ELSE IF decision.action = "upstream" /\ ~decision.upstream
       THEN SendErrorAndReturn(502, "Upstream proxy not configured")
       ELSE h_pc' = "open" /\ UNCHANGED client_out
    /\ UNCHANGED <<h_kind, resolver, policy_decision, decision, up_sock, up_out,
                   forwarded>>
    /\ HandlerFrame

\* open_upstream and the mapping of its exceptions.
ConnectOpen ==
    /\ h_kind = "connect" /\ h_pc = "open"
    /\ \E r \in OpenUpstreamOutcomes(resolver) :
          /\ h_log' = Append(h_log, "open_upstream:" \o r)
          /\ CASE r = "ok" ->
                    /\ up_sock' = "open"
                    /\ h_pc' = IF decision.action = "upstream"
                               THEN "handshake" ELSE "reply"
                    /\ UNCHANGED client_out
               [] r = "gaierror" ->
                    /\ SendErrorAndReturn(502, "DNS resolution failed")
                    /\ UNCHANGED up_sock
               [] r = "TimeoutError" ->
                    /\ SendErrorAndReturn(504, "Upstream timeout")
                    /\ UNCHANGED up_sock
               [] r = "OSError" ->
                    /\ SendErrorAndReturn(502, "Upstream connection failed")
                    /\ UNCHANGED up_sock
               [] OTHER ->
                    /\ h_pc' = "raised"
                    /\ UNCHANGED <<client_out, up_sock>>
    /\ UNCHANGED <<h_kind, resolver, policy_decision, decision, up_out, forwarded>>
    /\ HandlerFrame

\* perform_upstream_connect; on failure 502, then upstream.close().
ConnectHandshake ==
    /\ h_kind = "connect" /\ h_pc = "handshake"
    /\ \/ \* upstream.sendall(request) raises
          /\ h_log' = Append(h_log, "perform_upstream_connect:raised")
          /\ h_pc' = "raised"
          /\ UNCHANGED <<client_out, up_sock, up_out>>
       \/ \E code \in HandshakeCodes :
             /\ up_out' = Append(up_out, "CONNECT")
             /\ h_log' = Append(h_log, "perform_upstream_connect:" \o code)
             /\ IF HandshakeOk(code)
                THEN /\ h_pc' = "reply"
                     /\ UNCHANGED <<client_out, up_sock>>
                ELSE /\ SendErrorAndReturn(502, "Upstream proxy CONNECT failed")
                     /\ up_sock' = IF h_pc' = "done" THEN "closed" ELSE up_sock
    /\ UNCHANGED <<h_kind, resolver, policy_decision, decision, forwarded>>
    /\ HandlerFrame

\* client_sock.sendall(b"HTTP/1.1 200 Connection established\r\n\r\n")
ConnectReply ==
    /\ h_kind = "connect" /\ h_pc = "reply"
    /\ \E ok \in BOOLEAN :
          IF ok
          THEN /\ client_out' = Append(client_out, Established)
               /\ h_pc' = "relay"
          ELSE /\ h_pc' = "send_raised"
               /\ UNCHANGED client_out
    /\ UNCHANGED <<h_kind, resolver, policy_decision, decision, h_log, up_sock, up_out,
                   forwarded>>
    /\ HandlerFrame

\* relay_tunnel moves a buffer from the client to the upstream.
ConnectRelayUp ==
    /\ h_kind = "connect" /\ h_pc = "relay"
    /\ forwarded < MaxRelay
    /\ up_out' = Append(up_out, "<bytes>")
    /\ forwarded' = forwarded + 1
    /\ UNCHANGED <<h_kind, resolver, h_pc, policy_decision, decision, h_log, client_out,
                   up_sock>>
    /\ HandlerFrame

\* relay_tunnel moves a buffer from the upstream to the client.
ConnectRelayDown ==
    /\ h_kind = "connect" /\ h_pc = "relay"
    /\ forwarded < MaxRelay
    /\ client_out' = Append(client_out, DataBuf)
    /\ forwarded' = forwarded + 1
    /\ UNCHANGED <<h_kind, resolver, h_pc, policy_decision, decision, h_log, up_sock,
                   up_out>>
    /\ HandlerFrame

\* relay_tunnel returns; finally: upstream.close().
ConnectClose ==
    /\ h_kind = "connect" /\ h_pc = "relay"
    /\ up_sock' = "closed"
    /\ h_pc' = "done"
    /\ UNCHANGED <<h_kind, resolver, policy_decision, decision, h_log, client_out, up_out,
                   forwarded>>
    /\ HandlerFrame

ConnectNext ==
    \/ ConnectParse
    \/ ConnectPolicy
    \/ ConnectDecide
    \/ ConnectOpen
    \/ ConnectHandshake
    \/ ConnectReply
    \/ ConnectRelayUp
    \/ ConnectRelayDown
    \/ ConnectClose

----
\* handle_http_forward

\* The except clause that handles an exception raised inside the try block.
ExceptPc(exc) == "except:" \o exc

ExceptPcs == {ExceptPc(x) : x \in {"gaierror", "TimeoutError", "OSError"}}

\* split_absolute_http_url(req.target); 400 when it raises ValueError.
HttpSplit ==
    /\ h_kind = "http" /\ h_pc = "start"
    /\ \E parsed \in BOOLEAN :
          IF parsed
          THEN h_pc' = "policy" /\ UNCHANGED client_out
          ELSE SendErrorAndReturn(400, "Only http:// absolute-form supported")
    /\ UNCHANGED <<h_kind, resolver, policy_decision, decision, h_log, up_sock, up_out,
                   forwarded>>
    /\ HandlerFrame

\* check_host_policy; 403 with the policy's reason when it denies.
HttpPolicy ==
    /\ h_kind = "http" /\ h_pc = "policy"
    /\ h_log' = Append(h_log, "check_host_policy")
    /\ IF PolicyAllows(policy_decision)
       THEN h_pc' = "decide" /\ UNCHANGED client_out
       ELSE SendErrorAndReturn(403, "Forbidden: " \o policy_decision.reason)
    /\ UNCHANGED <<h_kind, resolver, policy_decision, decision, up_sock, up_out,
                   forwarded>>
    /\ HandlerFrame

\* engine.decide; 403 for action block.
HttpDecide ==
    /\ h_kind = "http" /\ h_pc = "decide"
    /\ h_log' = Append(h_log, "decide")
    /\ IF decision.action = "block"
       THEN SendErrorAndReturn(403, "Forbidden: " \o BlockReason(decision))
       ELSE h_pc' = "route" /\ UNCHANGED client_out
    /\ UNCHANGED <<h_kind, resolver, policy_decision, decision, up_sock, up_out,
                   forwarded>>
    /\ HandlerFrame

\* Inside the try block: 502 for action upstream with no upstream address (a
\* failed write of it is handled by the except clauses), else the request
\* line and headers are built.
HttpRoute ==
    /\ h_kind = "http" /\ h_pc = "route"
    /\ IF decision.action = "upstream" /\ ~decision.upstream
       THEN \/ /\ client_out' = Append(client_out,
                                  Resp(502, "Upstream proxy not configured"))
               /\ h_pc' = "done"
            \/ \E x \in WriteErrors :
                  /\ h_pc' = ExceptPc(x)
                  /\ UNCHANGED client_out
       ELSE h_pc' = "connect" /\ UNCHANGED client_out
    /\ UNCHANGED <<h_kind, resolver, policy_decision, decision, h_log, up_sock, up_out,
                   forwarded>>
    /\ HandlerFrame

\* socket.create_connection(upstream_addr, timeout=...)
HttpConnect ==
    /\ h_kind = "http" /\ h_pc = "connect"
    /\ \E r \in OpenOutcomes :
          /\ h_log' = Append(h_log, "create_connection:" \o r)
          /\ CASE r = "ok" -> up_sock' = "open" /\ h_pc' = "send"
               [] r = "other" -> up_sock' = up_sock /\ h_pc' = "raised"
               [] OTHER -> up_sock' = up_sock /\ h_pc' = ExceptPc(r)
    /\ UNCHANGED <<h_kind, resolver, policy_decision, decision, client_out, up_out,
                   forwarded>>
    /\ HandlerFrame

\* upstream.sendall(forward) and the body; an error leaves the with block,
\* which closes the upstream socket.
HttpSend ==
    /\ h_kind = "http" /\ h_pc = "send"
    /\ \/ /\ up_out' = up_out \o <<"request", "body">>
          /\ h_pc' = "response"
          /\ UNCHANGED up_sock
       \/ \E x \in WriteErrors, sent \in {<<>>, <<"request">>} :
             /\ up_out' = up_out \o sent
             /\ up_sock' = "closed"
             /\ h_pc' = ExceptPc(x)
    /\ UNCHANGED <<h_kind, resolver, policy_decision, decision, h_log, client_out,
                   forwarded>>
    /\ HandlerFrame

\* The response loop: data = upstream.recv(4096); client_sock.sendall(data).
HttpForward ==
    /\ h_kind = "http" /\ h_pc = "response"
    /\ \/ \* data received and written to the client
          /\ forwarded < MaxRelay
          /\ client_out' = Append(client_out, DataBuf)
          /\ forwarded' = forwarded + 1
          /\ UNCHANGED <<h_pc, up_sock>>
       \/ \* end of the response
          /\ h_pc' = "done"
          /\ up_sock' = "closed"
          /\ UNCHANGED <<client_out, forwarded>>
       \/ \* recv or the write to the client raises
          \E x \in WriteErrors :
             /\ h_pc' = ExceptPc(x)
             /\ up_sock' = "closed"
             /\ UNCHANGED <<client_out, forwarded>>
    /\ UNCHANGED <<h_kind, resolver, policy_decision, decision, h_log, up_out>>
    /\ HandlerFrame

\* except socket.gaierror / TimeoutError / OSError: send_http_error.
HttpExcept ==
    /\ h_kind = "http" /\ h_pc \in ExceptPcs
    /\ CASE h_pc = ExceptPc("gaierror") ->
                SendErrorAndReturn(502, "DNS resolution failed")
         [] h_pc = ExceptPc("TimeoutError") ->
                SendErrorAndReturn(504, "Upstream timeout")
         [] OTHER ->
                SendErrorAndReturn(502, "Upstream connection failed")
    /\ UNCHANGED <<h_kind, resolver, policy_decision, decision, h_log, up_sock, up_out,
                   forwarded>>
    /\ HandlerFrame

HttpNext ==
    \/ HttpSplit
    \/ HttpPolicy
    \/ HttpDecide
    \/ HttpRoute
    \/ HttpConnect
    \/ HttpSend
    \/ HttpForward
    \/ HttpExcept

HandlerNext == ConnectNext \/ HttpNext

\* One request through handle_connect_tunnel or handle_http_forward, for
\* every policy decision, segmentation decision and outcome of the sockets.
SpecHandler == HandlerInit /\ [][HandlerNext]_vars

(***************************************************************************)
(* Claims about the request handlers (checked under SpecHandler)           *)
(***************************************************************************)

\* Positions in client_out of the line "HTTP/1.1 200 Connection established".
EstablishedAt == {i \in 1..Len(client_out) : client_out[i] = Established}

\* Positions in client_out of buffers relayed from the upstream.
RelayedDownAt == {i \in 1..Len(client_out) : client_out[i] = DataBuf}

\* Buffers relayed from the client to the upstream.
RelayedUpAt == {i \in 1..Len(up_out) : up_out[i] = "<bytes>"}

\* C9: in the CONNECT path "HTTP/1.1 200 Connection established" is written
\* to the client only after open_upstream has returned a connected socket
\* and, when the decision's action is upstream, only after
\* perform_upstream_connect has returned success; no byte is relayed between
\* client and upstream before that line is written; the line is written at
\* most once per connection.
C9_EstablishedAfterUpstreamReady ==
    h_kind = "connect" =>
        /\ Cardinality(EstablishedAt) <= 1
        /\ EstablishedAt # {} =>
              /\ Logged("open_upstream:ok")
              /\ up_sock # "none"
              /\ decision.action = "upstream" =>
                    /\ Logged("perform_upstream_connect:200")
                    /\ \A i \in 1..Len(h_log) :
                          h_log[i] = "perform_upstream_connect:200" =>
                              \E j \in 1..(i - 1) : h_log[j] = "open_upstream:ok"
        /\ (RelayedDownAt # {} \/ RelayedUpAt # {}) => EstablishedAt # {}
        /\ \A i \in RelayedDownAt : \E j \in EstablishedAt : j < i
        /\ h_pc \in {"handshake", "reply"} =>
              RelayedDownAt = {} /\ RelayedUpAt = {}

\* C9 witness: a CONNECT chained through an upstream proxy has been answered
\* with the 200 line after a successful handshake, and buffers have been
\* relayed both ways.
C9_Witness ==
    /\ h_kind = "connect"
    /\ decision.action = "upstream"
    /\ Logged("perform_upstream_connect:200")
    /\ client_out = <<Established, DataBuf>>
    /\ up_out = <<"CONNECT", "<bytes>">>
    /\ h_pc = "done"

\* The request has been refused: the host policy has been consulted and has
\* denied the host, or the engine has been consulted and has decided block.
Refused ==
    /\ h_kind \in {"connect", "http"}
    /\ \/ Logged("check_host_policy") /\ ~policy_decision.allowed
       \/ Logged("decide") /\ decision.action = "block"

\* The message of the 403 response the claim describes.
ForbiddenMessage ==
    IF ~policy_decision.allowed
    THEN "Forbidden: " \o policy_decision.reason
    ELSE IF decision.reason \in {NoneStr, ""}
    THEN "Forbidden: Blocked by segmentation rule"
    ELSE "Forbidden: " \o decision.reason

\* C10: in the CONNECT path and in the HTTP-forward path, when the host
\* policy denies the host or the segmentation decision's action is block, the
\* client receives a 403 response with the message 'Forbidden: <reason>' (the
\* policy's reason, or the rule's reason, or 'Blocked by segmentation rule'
\* when the rule has none); the host policy is consulted before the
\* segmentation engine; no upstream socket is opened and no byte is sent
\* upstream for that request.
C10_RefusedRequestGets403 ==
    /\ \A i \in 1..Len(h_log) :
          h_log[i] = "decide" =>
              \E j \in 1..(i - 1) : h_log[j] = "check_host_policy"
    /\ Refused =>
          /\ up_sock = "none"
          /\ up_out = <<>>
          /\ \A r \in OpenOutcomes \cup {"ValueError"} :
                /\ ~Logged("open_upstream:" \o r)
                /\ ~Logged("create_connection:" \o r)
          /\ h_pc \in {"decide", "done", "send_raised"}
          /\ h_pc = "done" => client_out = <<Resp(403, ForbiddenMessage)>>
          \* the only write is the 403; it fails only with the client socket
          /\ h_pc # "done" => client_out = <<>>

\* C10 witness: an HTTP request allowed by the host policy and blocked by a
\* rule without a reason has been answered with the 403 response.
C10_Witness ==
    /\ h_kind = "http"
    /\ policy_decision.allowed
    /\ decision.action = "block"
    /\ decision.reason = NoneStr
    /\ h_log = <<"check_host_policy", "decide">>
    /\ client_out = <<Resp(403, "Forbidden: Blocked by segmentation rule")>>
    /\ h_pc = "done"

\* The failures of opening the upstream connection the handler has met.
OpenFailures ==
    {r \in (OpenOutcomes \cup {"ValueError"}) \ {"ok"} :
        Logged("open_upstream:" \o r) \/ Logged("create_connection:" \o r)}

\* The status the claim gives a failure: 504 for a timeout, else 502.
OpenFailureStatus(r) == IF r = "TimeoutError" THEN 504 ELSE 502

\* C11: whenever opening the upstream connection fails in a handler, for any
\* configured resolver variant (system, custom plain-DNS, caching), the
\* failure is recovered inside the handler and the client receives exactly
\* one inline error response, 502 for a name-resolution or connect failure
\* and 504 for a timeout; no such failure escapes to the worker boundary
\* leaving the client without a response.  (A failed write of the error
\* response itself, position "send_raised", is the client's doing.)
C11_OpenFailureRecovered ==
    \A r \in OpenFailures :
        /\ h_pc # "raised"
        /\ h_pc = "done" =>
              /\ Len(client_out) = 1
              /\ client_out[1].status = OpenFailureStatus(r)

(***************************************************************************)
(* resolver.py: CachingResolver                                            *)
(*                                                                         *)
(* NumThreads workers call resolve on one CachingResolver.  The two        *)
(* `with self._lock` blocks are one step each; the inner resolver runs     *)
(* between them, outside the lock.  Time is counted in ticks of half a     *)
(* second, so that int(expires_at - now) has something to round.           *)
(***************************************************************************)

MIN_TTL == 5

MAX_TTL == 3600

TicksPerSecond == 2

\* Largest max_entries tried.
MaxEntries == 2

\* resolve calls made in one behaviour.
MaxCalls == 4

\* The readings of time.monotonic() after the resolver was built at 0: one
\* tick later, and MIN_TTL seconds later.  The clock only moves forward.
Instants == {1, MIN_TTL * TicksPerSecond}

\* The (host, port) pairs resolved: three keys, one of them under two
\* spellings of its host.
Queries == {<<"a.example", 80>>, <<"A.Example", 80>>, <<"a.example", 443>>,
            <<"b.example", 80>>}

LowerKeepsCase(host) == host

\* host.lower()
Lower(host) == IF host = "A.Example" THEN "a.example" ELSE host

\* key = (host.lower(), port)
Key(host, port) == <<Lower(host), port>>

\* What the inner resolver returns: an address list and a TTL in seconds.
\* The addresses are labelled with the host as it was asked for, so that a
\* result tells which query it answered.
InnerAddrs(host) == <<"addr of " \o host>>

InnerTtls == {0, 1}

Max(a, b) == IF a > b THEN a ELSE b

\* The clamp without its upper limit
ClampTtlNoCeiling(ttl) == IF ttl > 0 THEN Max(MIN_TTL, ttl) ELSE ttl

\* ttl_seconds = max(MIN_TTL, min(ttl_seconds, MAX_TTL)) for ttl_seconds > 0
ClampTtl(ttl) == IF ttl > 0 THEN Max(MIN_TTL, Min(ttl, MAX_TTL)) ELSE ttl

\* self._cache.get(key): the position of the key's entry, 0 when absent.
CacheIndex(key) ==
    IF \E i \in 1..Len(cache) : cache[i].key = key
    THEN CHOOSE i \in 1..Len(cache) : cache[i].key = key
    ELSE 0

\* del self._cache[key]
Remove(seq, i) == SubSeq(seq, 1, i - 1) \o SubSeq(seq, i + 1, Len(seq))

\* seq without its element x.
Without(seq, x) == SelectSeq(seq, LAMBDA y : y # x)

\* self._cache.move_to_end(key, last=True)
MoveToEnd(seq, i) == Append(Remove(seq, i), seq[i])

FreshAtExpiry(now, expires_at) == now <= expires_at

\* if now < expires_at
Fresh(now, expires_at) == now < expires_at

\* int(expires_at - now), in seconds
RemainingTtl(now, expires_at) == (expires_at - now) \div TicksPerSecond

EvictsWhenOverFull(present, size) == ~present /\ size > max_entries

\* if key not in self._cache and len(self._cache) >= self._max_entries
Evicts(present, size) == ~present /\ size >= max_entries

CacheFrame ==
    UNCHANGED <<server_vars, data_vars, handler_vars, engine_vars, hostpolicy_vars,
                later_vars>>

\* resolve returns (or raises) in thread t: its locals are gone.
Return(t, value) ==
    /\ q_ret' = value
    /\ q_pc' = [q_pc EXCEPT ![t] = "idle"]
    /\ q_host' = [q_host EXCEPT ![t] = ""]
    /\ q_port' = [q_port EXCEPT ![t] = 0]
    /\ q_now' = [q_now EXCEPT ![t] = 0]
    /\ q_res' = [q_res EXCEPT ![t] = NoResult]

CacheInit ==
    /\ ServerInit
    /\ DataIdle
    /\ HandlerIdle
    /\ PureIdle
    /\ max_entries \in 0..MaxEntries
    /\ cache = <<>>
    /\ clock = 0
    /\ fifo = <<>>
    /\ calls = 0
    /\ q_pc = [t \in Threads |-> "idle"]
    /\ q_host = [t \in Threads |-> ""]
    /\ q_port = [t \in Threads |-> 0]
    /\ q_now = [t \in Threads |-> 0]
    /\ q_res = [t \in Threads |-> NoResult]
    /\ q_ret = NoResult
    /\ q_log = NoLog

\* A worker calls resolve(host, port): lines 348-352.
ResolveStart(t) ==
    /\ q_pc[t] = "idle"
    /\ calls < MaxCalls
    /\ calls' = calls + 1
    /\ \E q \in Queries :
          /\ q_host' = [q_host EXCEPT ![t] = q[1]]
          /\ q_port' = [q_port EXCEPT ![t] = q[2]]
    /\ IF max_entries <= 0
       THEN /\ q_pc' = [q_pc EXCEPT ![t] = "inner_only"]
            /\ UNCHANGED q_now
       ELSE /\ q_pc' = [q_pc EXCEPT ![t] = "lookup"]
            /\ q_now' = [q_now EXCEPT ![t] = clock]
    /\ q_ret' = NoResult
    /\ q_log' = NoLog
    /\ UNCHANGED <<max_entries, cache, clock, fifo, q_res>>
    /\ CacheFrame

\* The first `with self._lock` block: lines 354-373.
Lookup(t) ==
    /\ q_pc[t] = "lookup"
    /\ LET i == CacheIndex(Key(q_host[t], q_port[t]))
       IN  IF i # 0 /\ Fresh(q_now[t], cache[i].expires_at)
           THEN /\ cache' = MoveToEnd(cache, i)
                /\ q_log' = LogRecord("hit", q_host[t], q_port[t])
                /\ UNCHANGED fifo
                /\ Return(t, [addrs |-> cache[i].addrs,
                              ttl_seconds |->
                                  RemainingTtl(q_now[t], cache[i].expires_at),
                              how |-> "hit"])
           ELSE /\ cache' = IF i # 0 THEN Remove(cache, i) ELSE cache
                /\ fifo' = IF i # 0 THEN Without(fifo, cache[i].key) ELSE fifo
                /\ q_pc' = [q_pc EXCEPT ![t] = "inner"]
                /\ q_log' = LogRecord(IF i # 0 THEN "expired" ELSE "miss",
                                      q_host[t], q_port[t])
                /\ q_ret' = NoResult
                /\ UNCHANGED <<q_host, q_port, q_now, q_res>>
    /\ UNCHANGED <<max_entries, clock, calls>>
    /\ CacheFrame

\* self._inner.resolve(host, port) (line 349, or line 375 with the TTL
\* handling of lines 388-392): it returns a result or raises.
InnerResolve(t) ==
    /\ q_pc[t] \in {"inner_only", "inner"}
    /\ \/ /\ Return(t, [NoResult EXCEPT !.how = "raised"])
          /\ q_log' = NoLog
       \/ \E ttl \in InnerTtls :
             LET result == [addrs |-> InnerAddrs(q_host[t]),
                            ttl_seconds |-> ttl, how |-> "miss"]
             IN  IF q_pc[t] = "inner_only" \/ ClampTtl(ttl) <= 0
                 THEN /\ Return(t, result)
                      /\ q_log' = IF q_pc[t] = "inner_only" THEN NoLog
                                  ELSE LogRecord("resolved", q_host[t],
                                                 q_port[t])
                 ELSE /\ q_log' = LogRecord("resolved", q_host[t], q_port[t])
                      /\ q_res' = [q_res EXCEPT ![t] = result]
                      /\ q_pc' = [q_pc EXCEPT ![t] = "store"]
                      /\ q_ret' = NoResult
                      /\ UNCHANGED <<q_host, q_port, q_now>>
    /\ UNCHANGED <<max_entries, cache, clock, fifo, calls>>
    /\ CacheFrame

\* The second `with self._lock` block and the return: lines 393-405.
Store(t) ==
    /\ q_pc[t] = "store"
    /\ LET key == Key(q_host[t], q_port[t])
           i == CacheIndex(key)
           expires_at == q_now[t]
                           + ClampTtl(q_res[t].ttl_seconds) * TicksPerSecond
           kept == IF Evicts(i # 0, Len(cache)) THEN Tail(cache) ELSE cache
       IN  IF i # 0
           THEN /\ cache' = [cache EXCEPT ![i].expires_at = expires_at,
                                          ![i].addrs = q_res[t].addrs]
                /\ UNCHANGED fifo
           ELSE /\ cache' = Append(kept, [key |-> key,
                                          expires_at |-> expires_at,
                                          addrs |-> q_res[t].addrs])
                /\ fifo' = Append(IF Evicts(FALSE, Len(cache))
                                  THEN Without(fifo, cache[1].key) ELSE fifo,
                                  key)
    /\ q_log' = IF Evicts(CacheIndex(Key(q_host[t], q_port[t])) # 0, Len(cache))
                THEN LogRecord("evict", cache[1].key[1], cache[1].key[2])
                ELSE NoLog
    /\ Return(t, q_res[t])
    /\ UNCHANGED <<max_entries, clock, calls>>
    /\ CacheFrame

\* time.monotonic() moves on.
Advance ==
    /\ \E later \in Instants :
          /\ later > clock
          /\ clock' = later
    /\ UNCHANGED <<max_entries, cache, fifo, calls, q_pc,
                   q_host, q_port, q_now, q_res>>
    /\ q_ret' = NoResult
    /\ q_log' = NoLog
    /\ CacheFrame

CacheNext ==
    \/ \E t \in Threads : ResolveStart(t)
    \/ \E t \in Threads : Lookup(t)
    \/ \E t \in Threads : InnerResolve(t)
    \/ \E t \in Threads : Store(t)
    \/ Advance

\* Workers sharing one CachingResolver, for every max_entries up to
\* MaxEntries.
SpecCache == CacheInit /\ [][CacheNext]_vars

(***************************************************************************)
(* Claims about CachingResolver (checked under SpecCache)                  *)
(***************************************************************************)

\* Two spellings of one host, letter case apart.
SameHost(h1, h2) == h1 = h2 \/ {h1, h2} = {"a.example", "A.Example"}

\* The positions of the cache entries stored for (host, port), letter case of
\* the host apart.
EntriesFor(host, port) ==
    {i \in 1..Len(cache) :
        SameHost(cache[i].key[1], host) /\ cache[i].key[2] = port}

\* Thread t takes the lookup step of its resolve call.
LookupStep(t) == q_pc[t] = "lookup" /\ q_pc'[t] # "lookup"

\* C12: for a CachingResolver built with max_entries = N >= 0, after any
\* sequence and any interleaving of resolve calls the cache holds at most N
\* entries; with N = 0 nothing is cached and every resolve call goes to the
\* inner resolver.
C12_CacheBounded ==
    /\ Len(cache) <= max_entries
    /\ max_entries = 0 =>
          /\ cache = <<>>
          /\ \A t \in Threads : q_pc[t] \in {"idle", "inner_only"}
          /\ q_ret.how \in {"none", "miss", "raised"}

\* C12 witness: a store has just evicted an entry of a full cache of two while
\* the other worker is in the middle of its own resolve call.
C12_Witness ==
    /\ max_entries = 2
    /\ Len(cache) = 2
    /\ q_log.msg = "evict"
    /\ \E t \in Threads : q_pc[t] \in {"inner", "store"}

\* C13: a resolve call made at a time now >= expires_at of the entry stored
\* for its key never returns the cached addresses: the entry is dropped and
\* the inner resolver is called.
C13_ExpiredEntryMisses ==
    [][\A t \in Threads :
          (LookupStep(t) /\ \E i \in EntriesFor(q_host[t], q_port[t]) :
                                q_now[t] >= cache[i].expires_at)
          => /\ q_ret'.how # "hit"
             /\ q_pc'[t] = "inner"
             /\ \A j \in 1..Len(cache') :
                   cache'[j].key # <<Lower(q_host[t]), q_port[t]>>]_vars

\* C13 witness: a lookup made exactly at expires_at (MIN_TTL seconds after the
\* entry's own resolve call began) has dropped the entry and goes on to the
\* inner resolver.
C13_Witness ==
    /\ q_log.msg = "expired"
    /\ \E t \in Threads :
          /\ q_pc[t] = "inner"
          /\ q_now[t] = MIN_TTL * TicksPerSecond
          /\ CacheIndex(Key(q_host[t], q_port[t])) = 0

\* C14: a resolve call for (host, port) made while an entry for (lowercased
\* host, port) is present and now < expires_at returns exactly the addresses
\* stored for that entry with ttl_seconds = floor(expires_at - now), and does
\* not call the inner resolver; hosts that differ only in letter case hit the
\* same entry.
C14_FreshEntryHits ==
    [][\A t \in Threads :
          \A i \in EntriesFor(q_host[t], q_port[t]) :
             (LookupStep(t) /\ q_now[t] < cache[i].expires_at)
             => /\ q_ret'.how = "hit"
                /\ q_ret'.addrs = cache[i].addrs
                /\ q_ret'.ttl_seconds * TicksPerSecond
                      <= cache[i].expires_at - q_now[t]
                /\ (q_ret'.ttl_seconds + 1) * TicksPerSecond
                      > cache[i].expires_at - q_now[t]
                /\ q_pc'[t] = "idle"]_vars

\* C14 witness: "A.Example" has hit the entry stored for "a.example", half a
\* second into its MIN_TTL seconds, and got the stored addresses with the
\* remaining time rounded down.
C14_Witness ==
    /\ q_ret.how = "hit"
    /\ q_ret.addrs = InnerAddrs("a.example")
    /\ q_ret.ttl_seconds = MIN_TTL - 1
    /\ q_log = LogRecord("hit", "A.Example", 80)

\* C15: when a new key is inserted into a cache that is at capacity, the
\* entry evicted is the one inserted earliest among the entries present, for
\* every preceding sequence of resolve calls, hits included.
C15_EvictionIsFifo ==
    [][q_log'.msg = "evict" => <<q_log'.host, q_log'.port>> = fifo[1]]_vars

(***************************************************************************)
(* segmentation.py: SegmentationEngine.decide                              *)
(*                                                                         *)
(* A str the code inspects character by character (host, host_glob, path,  *)
(* path_prefix) is a sequence of one-character strings; a str it only      *)
(* compares (scheme, method, action, reason) is a string.  A rule is named *)
(* by its index in self._rules, so two equal rules declared at different   *)
(* places stay apart.  SegmentationDecision.explain is left out.           *)
(***************************************************************************)

\* Longest rule list an engine is built with.
MaxRules == 2

\* Calls of decide made on one engine with one context.
MaxDecides == 2

\* Python's None for an optional str held as a sequence (path_prefix).
NoneSeq == <<NoneStr>>

\* str.startswith
StartsWith(s, prefix) ==
    /\ Len(prefix) <= Len(s)
    /\ SubSeq(s, 1, Len(prefix)) = prefix

\* c in s, for a one-character c
Contains(s, c) == \E i \in 1..Len(s) : s[i] = c

\* fnmatch.fnmatch(name, pat) where os.path.normcase changes nothing: "*"
\* stands for any run of characters, "?" for any one character, every other
\* character for itself.  No pattern drawn below holds a bracket.
RECURSIVE fnmatch(_, _)
fnmatch(name, pat) ==
    IF pat = <<>>
    THEN name = <<>>
    ELSE IF Head(pat) = "*"
    THEN \/ fnmatch(name, Tail(pat))
         \/ name # <<>> /\ fnmatch(Tail(name), pat)
    ELSE /\ name # <<>>
         /\ Head(pat) = "?" \/ Head(pat) = Head(name)
         /\ fnmatch(Tail(name), Tail(pat))

\* str.upper on the methods drawn below
Upper(method) ==
    CASE method = "get" -> "GET"
      [] method = "connect" -> "CONNECT"
      [] OTHER -> method

\* _rule_matches without its method condition
rule_matches_any_method(ctx, rule) ==
    /\ fnmatch(ctx.host, rule.host_glob)
    /\ ~(rule.scheme # NoneStr /\ rule.scheme # ctx.scheme)
    /\ ~(rule.path_prefix # NoneSeq /\ ~StartsWith(ctx.path, rule.path_prefix))

rule_matches(ctx, rule) ==
    IF ~fnmatch(ctx.host, rule.host_glob)
    THEN FALSE
    ELSE IF rule.scheme # NoneStr /\ rule.scheme # ctx.scheme
    THEN FALSE
    ELSE IF rule.method # NoneStr /\ rule.method # Upper(ctx.method)
    THEN FALSE
    ELSE IF rule.path_prefix # NoneSeq /\ ~StartsWith(ctx.path, rule.path_prefix)
    THEN FALSE
    ELSE TRUE

\* _rule_score that gives a '*.' glob no more than any other wildcard glob
rule_score_suffix_unranked(rule) ==
    LET host_glob == rule.host_glob
        s1 == IF host_glob # <<>> /\ host_glob # <<"*">> THEN 1000 ELSE 0
        s2 == IF ~Contains(host_glob, "*") /\ ~Contains(host_glob, "?") THEN 500 ELSE 0
        s3 == IF rule.scheme # NoneStr THEN 100 ELSE 0
        s4 == IF rule.method # NoneStr THEN 100 ELSE 0
        s5 == IF rule.path_prefix # NoneSeq THEN Len(rule.path_prefix) ELSE 0
    IN  s1 + s2 + s3 + s4 + s5

rule_score(rule) ==
    LET host_glob == rule.host_glob
        s1 == IF host_glob # <<>> /\ host_glob # <<"*">> THEN 1000 ELSE 0
        s2 == IF ~Contains(host_glob, "*") /\ ~Contains(host_glob, "?")
              THEN 500
              ELSE IF StartsWith(host_glob, <<"*", ".">>) THEN 200 ELSE 0
        s3 == IF rule.scheme # NoneStr THEN 100 ELSE 0
        s4 == IF rule.method # NoneStr THEN 100 ELSE 0
        s5 == IF rule.path_prefix # NoneSeq THEN Len(rule.path_prefix) ELSE 0
    IN  s1 + s2 + s3 + s4 + s5

\* _action_preferred that prefers no action to another
action_never_preferred(action, other) == FALSE

action_preferred(action, other) == action = "block" /\ other # "block"

\* The decision of a call that matched no rule, with the score a
\* SegmentationDecision has when none is given
DefaultDecisionScoreUnset(default) ==
    [action |-> "direct", policy |-> default, upstream |-> NoneStr,
     matched_rule |-> 0, reason |-> NoneStr, score |-> 0]

\* decide, lines 79-88: the decision when best_rule is None
DefaultDecision(default) ==
    [action |-> "direct", policy |-> default, upstream |-> NoneStr,
     matched_rule |-> 0, reason |-> NoneStr, score |-> -1]

\* decide, lines 90-98: the decision made from best_rule (declared at index)
RuleDecision(index, rule, score) ==
    [action |-> rule.action, policy |-> rule.policy,
     upstream |-> rule.upstream, matched_rule |-> index,
     reason |-> rule.reason, score |-> score]

\* A loop over self._rules that begins one rule later at every call
LoopStartAfterCall(call) == call

\* decide, line 65: the loop begins at the first rule, at every call
LoopStart(call) == 1

\* SegmentationRule(...), the fields in the order of the rules below
SegmentationRule(host_glob, policy_, action, upstream, reason, scheme, method, path_prefix) ==
    [host_glob |-> host_glob, policy |-> policy_, action |-> action,
     upstream |-> upstream, reason |-> reason, scheme |-> scheme,
     method |-> method, path_prefix |-> path_prefix]

\* The rules an engine is built from.
Rules ==
    { SegmentationRule(<<"*">>, "p1", "direct", NoneStr, NoneStr,
                       NoneStr, NoneStr, NoneSeq),
      SegmentationRule(<<"*">>, "p2", "block", NoneStr, "no",
                       NoneStr, NoneStr, NoneSeq),
      SegmentationRule(<<"*", ".", "a">>, "p3", "upstream", "proxy:3128",
                       NoneStr, "https", NoneStr, NoneSeq),
      SegmentationRule(<<"?", ".", "a">>, "p4", "block", NoneStr, NoneStr,
                       NoneStr, "CONNECT", NoneSeq),
      SegmentationRule(<<"x", ".", "a">>, "p5", "direct", NoneStr, NoneStr,
                       NoneStr, "GET", NoneSeq),
      SegmentationRule(<<"x", ".", "a">>, "p6", "block", NoneStr, "api",
                       "http", NoneStr, NoneSeq),
      SegmentationRule(<<"x", ".", "a">>, "p7", "upstream", NoneStr, NoneStr,
                       NoneStr, "get", <<"/", "v">>),
      SegmentationRule(<<>>, "p8", "direct", NoneStr, NoneStr,
                       NoneStr, NoneStr, <<>>) }

RuleLists == UNION {[1..n -> Rules] : n \in 0..MaxRules}

Contexts ==
    [method : {"GET", "get", "CONNECT"}, scheme : {"http", "https"},
     host : {<<"x", ".", "a">>, <<"X", ".", "a">>, <<>>}, port : {443},
     path : {<<>>, <<"/", "v", "1">>}]

EngineFrame ==
    UNCHANGED <<server_vars, data_vars, handler_vars, cache_vars, hostpolicy_vars,
                later_vars>>

\* SegmentationEngine(rules, default), and the context decide is called with
EngineInit ==
    /\ ServerInit
    /\ DataIdle
    /\ HandlerIdle
    /\ CacheIdle
    /\ HostPolicyIdle
    /\ LaterIdle
    /\ e_rules \in RuleLists
    /\ e_default = "default"
    /\ e_ctx \in Contexts
    /\ e_pc = "ready"
    /\ e_call = 0
    /\ e_idx = 0
    /\ best_rule = 0
    /\ best_score = 0
    /\ e_first = NoDecision
    /\ e_decision = NoDecision

\* decide is called: lines 62-63
DecideCall ==
    /\ e_pc = "ready"
    /\ e_call < MaxDecides
    /\ e_call' = e_call + 1
    /\ best_rule' = 0
    /\ best_score' = -1
    /\ e_idx' = LoopStart(e_call + 1)
    /\ e_pc' = "loop"
    /\ e_decision' = NoDecision
    /\ UNCHANGED <<e_rules, e_default, e_ctx, e_first>>
    /\ EngineFrame

\* One turn of the loop, lines 65-77
DecideLoop ==
    /\ e_pc = "loop"
    /\ e_idx <= Len(e_rules)
    /\ LET rule == e_rules[e_idx]
           score == rule_score(rule)
       IN  IF ~rule_matches(e_ctx, rule)
           THEN UNCHANGED <<best_rule, best_score>>
           ELSE IF best_rule = 0 \/ score > best_score
           THEN best_rule' = e_idx /\ best_score' = score
           ELSE IF /\ score = best_score
                   /\ action_preferred(rule.action, e_rules[best_rule].action)
           THEN best_rule' = e_idx /\ best_score' = score
           ELSE UNCHANGED <<best_rule, best_score>>
    /\ e_idx' = e_idx + 1
    /\ UNCHANGED <<e_rules, e_default, e_ctx, e_pc, e_call, e_first, e_decision>>
    /\ EngineFrame

\* The loop is over: lines 79-98
DecideReturn ==
    /\ e_pc = "loop"
    /\ e_idx > Len(e_rules)
    /\ e_decision' = IF best_rule = 0
                     THEN DefaultDecision(e_default)
                     ELSE RuleDecision(best_rule, e_rules[best_rule], best_score)
    /\ e_first' = IF e_call = 1 THEN e_decision' ELSE e_first
    /\ e_pc' = "ready"
    /\ e_idx' = 0
    /\ best_rule' = 0
    /\ best_score' = 0
    /\ UNCHANGED <<e_rules, e_default, e_ctx, e_call>>
    /\ EngineFrame

EngineNext == DecideCall \/ DecideLoop \/ DecideReturn

SpecEngine == EngineInit /\ [][EngineNext]_vars

(***************************************************************************)
(* Claims about SegmentationEngine.decide                                  *)
(***************************************************************************)

\* A call of decide has returned.
Decided == e_pc = "ready" /\ e_call >= 1

\* The indices of the rules that match the context.
Matching == {i \in 1..Len(e_rules) : rule_matches(e_ctx, e_rules[i])}

\* The highest score among the rules that match.
TopScore ==
    CHOOSE s \in {rule_score(e_rules[i]) : i \in Matching} :
        \A i \in Matching : rule_score(e_rules[i]) <= s

\* The rules that match with the highest score, and those of them that block.
TopRules == {i \in Matching : rule_score(e_rules[i]) = TopScore}

TopBlocks == {i \in TopRules : e_rules[i].action = "block"}

First(S) == CHOOSE i \in S : \A j \in S : i <= j

C17_BestRuleWins ==
    Decided /\ Matching # {} =>
        /\ e_decision.matched_rule \in TopRules
        /\ e_decision.score = TopScore
        /\ e_decision.matched_rule =
               IF TopBlocks # {} THEN First(TopBlocks) ELSE First(TopRules)

\* Two rules match with the same score; the first does not block, the second
\* does, and the decision is made from the second.
C17_Witness ==
    /\ Decided
    /\ Matching = {1, 2}
    /\ rule_score(e_rules[1]) = rule_score(e_rules[2])
    /\ e_rules[1].action # "block"
    /\ e_rules[2].action = "block"
    /\ e_decision.matched_rule = 2

\* C18: the decision is the default one (action direct, the default policy,
\* no matched rule, no upstream, score -1) exactly when no rule matches; a
\* decision made from a rule has a score of 0 or more and carries the
\* action, policy, upstream and reason of that rule.
C18_DefaultIffNoMatch ==
    Decided =>
        /\ Matching = {} <=> e_decision.matched_rule = 0
        /\ e_decision.matched_rule = 0 =>
               /\ e_decision.action = "direct"
               /\ e_decision.policy = e_default
               /\ e_decision.upstream = NoneStr
               /\ e_decision.score = -1
        /\ e_decision.matched_rule # 0 =>
               LET rule == e_rules[e_decision.matched_rule]
               IN  /\ e_decision.score >= 0
                   /\ e_decision.action = rule.action
                   /\ e_decision.policy = rule.policy
                   /\ e_decision.upstream = rule.upstream
                   /\ e_decision.reason = rule.reason

\* Two rules were declared, neither matches, and the default decision came.
C18_Witness ==
    /\ Decided
    /\ Len(e_rules) = 2
    /\ Matching = {}
    /\ e_decision.matched_rule = 0
    /\ e_decision.score = -1

\* The four conditions of a match, each on its own.
HostOk(ctx, rule) == fnmatch(ctx.host, rule.host_glob)

SchemeOk(ctx, rule) == rule.scheme = NoneStr \/ rule.scheme = ctx.scheme

MethodOk(ctx, rule) ==
    \/ rule.method = NoneStr
    \/ rule.method = "GET" /\ ctx.method \in {"GET", "get"}
    \/ rule.method = "CONNECT" /\ ctx.method = "CONNECT"

PathOk(ctx, rule) ==
    \/ rule.path_prefix = NoneSeq
    \/ /\ Len(rule.path_prefix) <= Len(ctx.path)
       /\ \A i \in 1..Len(rule.path_prefix) : ctx.path[i] = rule.path_prefix[i]

AllOk(ctx, rule) ==
    HostOk(ctx, rule) /\ SchemeOk(ctx, rule) /\ MethodOk(ctx, rule) /\ PathOk(ctx, rule)

\* C19: a rule matches a context exactly when the host matches its glob, it
\* has no scheme or the context's, no method or the uppercased method of the
\* context, no path prefix or one the path starts with: the rule a decision
\* is made from meets all four conditions, and a rule that meets all four is
\* never passed over (a decision is made from a rule, of no lower score).
C19_MatchIsConjunction ==
    Decided =>
        /\ e_decision.matched_rule # 0 =>
               AllOk(e_ctx, e_rules[e_decision.matched_rule])
        /\ \A i \in 1..Len(e_rules) :
               AllOk(e_ctx, e_rules[i]) =>
                   /\ e_decision.matched_rule # 0
                   /\ rule_score(e_rules[i]) <= e_decision.score

\* The first rule fails the method condition alone and has the higher
\* score; the decision is made from the second rule.
C19_Witness ==
    /\ Decided
    /\ Len(e_rules) = 2
    /\ HostOk(e_ctx, e_rules[1])
    /\ SchemeOk(e_ctx, e_rules[1])
    /\ PathOk(e_ctx, e_rules[1])
    /\ ~MethodOk(e_ctx, e_rules[1])
    /\ rule_score(e_rules[1]) > rule_score(e_rules[2])
    /\ e_decision.matched_rule = 2

(***************************************************************************)
(* policy.py: check_host_policy                                            *)
(*                                                                         *)
(* host and the domain rules are sequences of one-character strings.  A    *)
(* reason is a sequence of the parts of the formatted text.                *)
(***************************************************************************)

\* Longest allow_domains and deny_domains tuple drawn.
MaxPatterns == 2

\* str.lower, on the characters drawn below
LowerChar(c) ==
    CASE c = "A" -> "a"
      [] c = "B" -> "b"
      [] OTHER -> c

LowerSeq(s) == [i \in 1..Len(s) |-> LowerChar(s[i])]

\* str.lstrip(chars) and str.strip(chars)
RECURSIVE LStrip(_, _)
LStrip(s, chars) ==
    IF s # <<>> /\ Head(s) \in chars THEN LStrip(Tail(s), chars) ELSE s

RECURSIVE RStrip(_, _)
RStrip(s, chars) ==
    IF s # <<>> /\ s[Len(s)] \in chars
    THEN RStrip(SubSeq(s, 1, Len(s) - 1), chars)
    ELSE s

Strip(s, chars) == RStrip(LStrip(s, chars), chars)

\* The characters str.strip() and int() remove, of those drawn below
Whitespace == {" ", "\t", "\n", "\r"}

\* str.endswith
EndsWith(s, suffix) ==
    /\ Len(suffix) <= Len(s)
    /\ SubSeq(s, Len(s) - Len(suffix) + 1, Len(s)) = suffix

normalize_domain_rule(rule) == LowerSeq(Strip(rule, Whitespace))

host_matches_rule(host_, rule_) ==
    LET host == Strip(LowerSeq(host_), {"."})
        rule == Strip(LowerSeq(rule_), Whitespace)
    IN  IF rule = <<>>
        THEN FALSE
        ELSE IF StartsWith(rule, <<".">>)
        THEN LET suffix == LStrip(rule, {"."})
             IN  host = suffix \/ EndsWith(host, <<".">> \o suffix)
        ELSE host = rule

\* The IP literals drawn: 127.0.0.1 (loopback) and 8.8.8.8
LoopbackLiteral == <<"1", "2", "7", ".", "0", ".", "0", ".", "1">>

PublicLiteral == <<"8", ".", "8", ".", "8", ".", "8">>

is_ip_literal(host) == host \in {LoopbackLiteral, PublicLiteral}

\* _is_private_ip that takes no address for private
is_private_ip_never(ip) == FALSE

is_private_ip(ip) == ip = LoopbackLiteral

\* What socket.getaddrinfo(host, None, type=SOCK_STREAM) does: it returns
\* infos (here the sockaddr[0] of each, as "private" or "public"), raises
\* socket.gaierror, or raises UnicodeError (a host with an empty label or
\* one longer than 63 characters fails the idna encoding).
GetaddrinfoOutcomes(host) ==
    LET empty_label ==
            \/ host = <<".">>
            \/ \E i \in 1..(Len(host) - 1) : host[i] = "." /\ host[i + 1] = "."
    IN  IF empty_label
        THEN {[kind |-> "UnicodeError", infos |-> <<>>]}
        ELSE {[kind |-> "gaierror", infos |-> <<>>]} \cup
             {[kind |-> "infos", infos |-> i] :
                  i \in {<<"public">>, <<"private">>, <<"public", "private">>}}

NotCalled == [kind |-> "none", infos |-> <<>>]

\* bool, as text
Bool(b) == IF b THEN "True" ELSE "False"

\* _resolves_to_private: "True", "False", or the exception that leaves it
resolves_to_private(host, dns) ==
    IF is_ip_literal(host)
    THEN Bool(is_private_ip(host))
    ELSE CASE dns.kind = "gaierror" -> "False"
           [] dns.kind = "infos" ->
                  Bool(\E i \in 1..Len(dns.infos) : dns.infos[i] = "private")
           [] OTHER -> dns.kind

PolicyDecision(allowed, reason) == [allowed |-> allowed, reason |-> reason]

\* The hosts drawn: a.b, A.b. (upper case, trailing dot), b, " c" (to be
\* stripped), a..b (an empty label) and the two IP literals.
Hosts ==
    { <<"a", ".", "b">>, <<"A", ".", "b", ".">>, <<"b">>, <<" ", "c">>,
      <<"a", ".", ".", "b">>, LoopbackLiteral, PublicLiteral }

\* The domain rules drawn: b, .b, " A.B " and the empty rule.
Patterns ==
    { <<"b">>, <<".", "b">>, <<" ", "A", ".", "B", " ">>, <<>> }

PatternLists == UNION {[1..n -> Patterns] : n \in 0..MaxPatterns}

HostPolicyFrame ==
    UNCHANGED <<server_vars, data_vars, handler_vars, cache_vars, engine_vars,
                later_vars>>

\* check_host_policy(host, allow_domains=..., deny_domains=...,
\* deny_private=...) is called; p_dns is what getaddrinfo will do if asked.
HostPolicyInit ==
    /\ ServerInit
    /\ DataIdle
    /\ HandlerIdle
    /\ CacheIdle
    /\ EngineIdle
    /\ LaterIdle
    /\ p_host \in Hosts
    /\ allow_domains \in PatternLists
    /\ deny_domains \in PatternLists
    /\ deny_private \in BOOLEAN
    /\ p_dns \in IF deny_private /\ ~is_ip_literal(Strip(p_host, Whitespace))
                 THEN GetaddrinfoOutcomes(Strip(p_host, Whitespace))
                 ELSE {NotCalled}
    /\ p_pc = "start"
    /\ p_idx = 0
    /\ p_ret = NoPolicyDecision

PolicyReturn(value) ==
    /\ p_ret' = value
    /\ p_pc' = "done"
    /\ p_idx' = 0

\* Lines 90-94: host = host.strip(), then the private-address check
CheckPrivate ==
    /\ p_pc = "start"
    /\ p_host' = Strip(p_host, Whitespace)
    /\ LET private == IF deny_private
                      THEN resolves_to_private(p_host', p_dns)
                      ELSE "False"
       IN  CASE private = "True" ->
                    PolicyReturn(PolicyDecision(FALSE,
                        <<"Blocked private/loopback/reserved address">>))
             [] private = "False" ->
                    /\ p_pc' = "deny"
                    /\ p_idx' = 1
                    /\ p_ret' = p_ret
             [] OTHER ->
                    /\ p_pc' = "raised"
                    /\ p_idx' = 0
                    /\ p_ret' = p_ret
    /\ UNCHANGED <<allow_domains, deny_domains, deny_private, p_dns>>
    /\ HostPolicyFrame

\* Lines 97-99: one turn of the loop over deny_domains
CheckDeny ==
    /\ p_pc = "deny"
    /\ p_idx <= Len(deny_domains)
    /\ LET rule == deny_domains[p_idx]
       IN  IF host_matches_rule(p_host, normalize_domain_rule(rule))
           THEN PolicyReturn(PolicyDecision(FALSE,
                    <<"Blocked by deny rule: ", rule>>))
           ELSE /\ p_idx' = p_idx + 1
                /\ UNCHANGED <<p_pc, p_ret>>
    /\ UNCHANGED <<p_host, allow_domains, deny_domains, deny_private, p_dns>>
    /\ HostPolicyFrame

\* Lines 102 and 108-109: the deny loop is over
AfterDeny ==
    /\ p_pc = "deny"
    /\ p_idx > Len(deny_domains)
    /\ IF allow_domains # <<>>
       THEN /\ p_pc' = "allow"
            /\ p_idx' = 1
            /\ p_ret' = p_ret
       ELSE PolicyReturn(PolicyDecision(TRUE, <<"">>))
    /\ UNCHANGED <<p_host, allow_domains, deny_domains, deny_private, p_dns>>
    /\ HostPolicyFrame

\* Lines 103-106: one turn of the loop over allow_domains, or its end
CheckAllow ==
    /\ p_pc = "allow"
    /\ IF p_idx > Len(allow_domains)
       THEN PolicyReturn(PolicyDecision(FALSE, <<"Not in allow list">>))
       ELSE IF host_matches_rule(p_host,
                   normalize_domain_rule(allow_domains[p_idx]))
       THEN PolicyReturn(PolicyDecision(TRUE, <<"">>))
       ELSE /\ p_idx' = p_idx + 1
            /\ UNCHANGED <<p_pc, p_ret>>
    /\ UNCHANGED <<p_host, allow_domains, deny_domains, deny_private, p_dns>>
    /\ HostPolicyFrame

HostPolicyNext == CheckPrivate \/ CheckDeny \/ AfterDeny \/ CheckAllow

SpecPolicy == HostPolicyInit /\ [][HostPolicyNext]_vars

(***************************************************************************)
(* Claims about check_host_policy                                          *)
(***************************************************************************)

\* The host is, or resolves to, a private address: an IP literal that is
\* private, or a name for which the lookup returned a private address.
IsOrResolvesToPrivate ==
    \/ p_host = LoopbackLiteral
    \/ /\ p_dns.kind = "infos"
       /\ \E i \in 1..Len(p_dns.infos) : p_dns.infos[i] = "private"

DenyMatches ==
    {i \in 1..Len(deny_domains) : host_matches_rule(p_host, deny_domains[i])}

AllowMatches ==
    {i \in 1..Len(allow_domains) : host_matches_rule(p_host, allow_domains[i])}

\* The decision the four ordered checks give.
OrderedDecision ==
    IF deny_private /\ IsOrResolvesToPrivate
    THEN PolicyDecision(FALSE, <<"Blocked private/loopback/reserved address">>)
    ELSE IF DenyMatches # {}
    THEN PolicyDecision(FALSE,
             <<"Blocked by deny rule: ", deny_domains[First(DenyMatches)]>>)
    ELSE IF allow_domains # <<>>
    THEN IF AllowMatches # {}
         THEN PolicyDecision(TRUE, <<"">>)
         ELSE PolicyDecision(FALSE, <<"Not in allow list">>)
    ELSE PolicyDecision(TRUE, <<"">>)

\* C20: check_host_policy applies its checks in a fixed order and returns at
\* the first that decides: (1) deny_private and the host is or resolves to a
\* private address: deny; (2) the host matches a deny pattern: deny with that
\* pattern's reason; (3) a non-empty allow list: allow if the host matches
\* one of its patterns, else deny with 'Not in allow list'; (4) allow.  A
\* lookup that fails in step 1 does not deny: the call goes on to step 2.
\* So every call ends by returning the decision of the ordered checks.
C20_ChecksInFixedOrder ==
    p_pc \in {"done", "raised"} =>
        /\ p_pc = "done"
        /\ p_ret = OrderedDecision

\* The private-address check cannot deny: deny_private is off, or the host is
\* an IP literal that is not private, or its lookup returned no private
\* address or raised socket.gaierror.
PrivateCheckPasses ==
    \/ ~deny_private
    \/ p_host = PublicLiteral
    \/ p_dns.kind = "gaierror"
    \/ /\ p_dns.kind = "infos"
       /\ \A i \in 1..Len(p_dns.infos) : p_dns.infos[i] # "private"

PolicyEnded == p_pc \in {"done", "raised"}

TunnelReturned == m_pc = "returned"

\* The tunnel runs a segmented relay with its reader thread.
Segmented == scenario = "tunnel" /\ RelayKind(policy) # "bidirectional"

\* Neither peer has anything left to deliver (whether it then closes its
\* connection or keeps it open is up to the peer).
PeersSilent == t_in["client"] = <<>> /\ t_in["upstream"] = <<>>

\* C28: every CONNECT relay, in every relay mode, terminates once neither
\* peer delivers data any more, also when both keep their connections open:
\* relay_tunnel returns to the handler.
C28_IdleRelayTerminates ==
    (scenario = "tunnel" /\ PeersSilent) ~> TunnelReturned

\* C29, the steps: once the stop flag is set the reader begins no further
\* turn of its loop: from the loop condition it can only end.
C29_ReaderStep ==
    stop /\ r_pc = "check" /\ r_pc' # r_pc => r_pc' = "ended"

\* C29, the states: a reader runs exactly when the relay is segmented and has
\* started; relay_tunnel does not return from a segmented relay before the
\* stop flag is set; the join always returns.
C29_ReaderState ==
    /\ r_pc # "none" <=> Segmented /\ m_pc # "dispatch"
    /\ Segmented /\ m_pc \in {"join", "returned"} => stop
    /\ stop => m_exit # "none"
    /\ m_pc = "join" => ENABLED JoinReader

\* C29: a segmented tunnel starts exactly one reader besides the worker;
\* however the client-to-upstream flow ends, the stop flag is set before
\* relay_tunnel returns and the join of the reader lasts one tick at most;
\* once the flag is set the reader performs no further loop iteration after
\* its current read returns, and it eventually exits.
C29_StopFlagEndsReader ==
    /\ []C29_ReaderState
    /\ [][C29_ReaderStep]_vars
    /\ stop ~> r_pc = "ended"

\* The client-to-upstream flow ended at the client's end of stream, the flag
\* was set, and the reader has ended with the sockets still open, nothing
\* failed and upstream data still to come.
C29_Witness ==
    /\ Segmented
    /\ m_exit = "eof"
    /\ stop
    /\ r_pc = "ended"
    /\ ~socks_closed
    /\ ~t_werr["client"]
    /\ t_in["upstream"] # <<>>

\* C30: in a segmented tunnel, when the reader has ended (the upstream closed
\* its connection, or a socket error occurred), the client-to-upstream flow
\* and relay_tunnel terminate too, also when the client sends nothing more
\* and keeps its connection open.
C30_ReaderEndEndsTunnel ==
    (Segmented /\ r_pc = "ended") ~> TunnelReturned

(***************************************************************************)
(* segmentation.py, parse_segment_rule, and main.py, format_rule           *)
(*                                                                         *)
(* A rule text and every string made from it is a string; SubSeq, Len and  *)
(* \o read and build strings one character at a time.                      *)
(***************************************************************************)

\* Most key=value tokens after the mode in a rule text drawn.
MaxTokens == 3

\* max_len: the default of _shorten's parameter
max_len == 24

\* s[i - 1] of Python: the i-th character, as a string of length one
CharAt(s, i) == SubSeq(s, i, i)

\* s[i:] of Python, for 0 <= i
From(s, i) == SubSeq(s, i + 1, Len(s))

\* str.find(c) + 1 and str.rfind(c) + 1 for a one-character c: the position of
\* the first (last) c in s, 0 if there is none
str_find(s, c) ==
    IF \E i \in 1..Len(s) : CharAt(s, i) = c
    THEN CHOOSE i \in 1..Len(s) :
             CharAt(s, i) = c /\ \A j \in 1..(i - 1) : CharAt(s, j) # c
    ELSE 0

str_rfind(s, c) ==
    IF \E i \in 1..Len(s) : CharAt(s, i) = c
    THEN CHOOSE i \in 1..Len(s) :
             CharAt(s, i) = c /\ \A j \in (i + 1)..Len(s) : CharAt(s, j) # c
    ELSE 0

\* sub in s
str_contains(s, sub) ==
    \E i \in 0..(Len(s) - Len(sub)) : SubSeq(s, i + 1, i + Len(sub)) = sub

\* s.split(sep, 1) and s.rsplit(sep, 1), called where sep is in s
split_once(s, sep) ==
    LET i == str_find(s, sep) IN <<SubSeq(s, 1, i - 1), From(s, i)>>

rsplit_once(s, sep) ==
    LET i == str_rfind(s, sep) IN <<SubSeq(s, 1, i - 1), From(s, i)>>

\* s.split(sep)
RECURSIVE str_split(_, _)
str_split(s, sep) ==
    LET i == str_find(s, sep)
    IN  IF i = 0
        THEN <<s>>
        ELSE <<SubSeq(s, 1, i - 1)>> \o str_split(From(s, i), sep)

\* s.strip(): the rule texts drawn hold no whitespace but the space
RECURSIVE str_lstrip(_)
str_lstrip(s) ==
    IF Len(s) > 0 /\ CharAt(s, 1) \in Whitespace THEN str_lstrip(From(s, 1)) ELSE s

RECURSIVE str_rstrip(_)
str_rstrip(s) ==
    IF Len(s) > 0 /\ CharAt(s, Len(s)) \in Whitespace
    THEN str_rstrip(SubSeq(s, 1, Len(s) - 1))
    ELSE s

str_strip(s) == str_rstrip(str_lstrip(s))

\* s.lower() and s.upper() on ASCII text
UpperCase == "ABCDEFGHIJKLMNOPQRSTUVWXYZ"
LowerCase == "abcdefghijklmnopqrstuvwxyz"

RECURSIVE str_translate(_, _, _)
str_translate(s, from, to) ==
    IF s = ""
    THEN ""
    ELSE LET i == str_find(from, CharAt(s, 1))
         IN  (IF i = 0 THEN CharAt(s, 1) ELSE CharAt(to, i))
                 \o str_translate(From(s, 1), from, to)

str_lower(s) == str_translate(s, UpperCase, LowerCase)
str_upper(s) == str_translate(s, LowerCase, UpperCase)

\* int(value): surrounding whitespace, one optional sign, then decimal digits.
\* (int also takes single underscores between digits; no text drawn has one.)
\* The result is <<n>>, or <<>> where int raises ValueError.
DecimalDigits == "0123456789"

RECURSIVE digits_value(_, _)
digits_value(s, acc) ==
    IF s = ""
    THEN acc
    ELSE digits_value(From(s, 1), 10 * acc + str_find(DecimalDigits, CharAt(s, 1)) - 1)

int(value) ==
    LET v == str_strip(value)
        signed == Len(v) > 0 /\ CharAt(v, 1) \in {"+", "-"}
        digits == IF signed THEN From(v, 1) ELSE v
        number == digits_value(digits, 0)
    IN  IF /\ Len(digits) > 0
           /\ \A i \in 1..Len(digits) : str_find(DecimalDigits, CharAt(digits, i)) # 0
        THEN <<IF signed /\ CharAt(v, 1) = "-" THEN 0 - number ELSE number>>
        ELSE <<>>

\* str(n), as the f-strings of format_rule write an int
RECURSIVE str_nat(_)
str_nat(n) ==
    IF n < 10
    THEN CharAt(DecimalDigits, n + 1)
    ELSE str_nat(n \div 10) \o CharAt(DecimalDigits, (n % 10) + 1)

str(n) == IF n < 0 THEN "-" \o str_nat(0 - n) ELSE str_nat(n)

\* _validate_policy without its last test (min_chunk > max_chunk)
validate_policy_min_above_max(strategy, chunk_size, min_chunk, max_chunk) ==
    IF strategy \notin {"none", "fixed", "random"}
    THEN "unknown strategy"
    ELSE IF strategy = "fixed"
    THEN IF chunk_size <= 0 THEN "fixed strategy requires chunk > 0" ELSE ""
    ELSE IF strategy = "random"
    THEN IF min_chunk = None \/ max_chunk = None
         THEN "random strategy requires both min and max"
         ELSE IF min_chunk <= 0 \/ max_chunk <= 0
         THEN "random strategy requires min/max > 0"
         ELSE ""
    ELSE ""

\* _validate_policy, _validate_delay, _validate_action: the message of the
\* ValueError raised, "" if none is raised.  No text drawn gives min or max
\* a negative value, so None (-1) stands for None only.
validate_policy(strategy, chunk_size, min_chunk, max_chunk) ==
    IF strategy \notin {"none", "fixed", "random"}
    THEN "unknown strategy"
    ELSE IF strategy = "fixed"
    THEN IF chunk_size <= 0 THEN "fixed strategy requires chunk > 0" ELSE ""
    ELSE IF strategy = "random"
    THEN IF min_chunk = None \/ max_chunk = None
         THEN "random strategy requires both min and max"
         ELSE IF min_chunk <= 0 \/ max_chunk <= 0
         THEN "random strategy requires min/max > 0"
         ELSE IF min_chunk > max_chunk
         THEN "random strategy requires min <= max"
         ELSE ""
    ELSE ""

validate_delay(delay_ms) == IF delay_ms < 0 THEN "delay must be >= 0" ELSE ""

\* upstream is <<host, port>>, or <<>> for None
validate_action(action, upstream) ==
    IF action = "upstream" /\ upstream = <<>>
    THEN "upstream action requires upstream=HOST:PORT"
    ELSE IF action = "block" /\ upstream # <<>>
    THEN "block action cannot include upstream"
    ELSE ""

\* _parse_action, _parse_scheme, _parse_method, _parse_path_prefix: <<value>>,
\* or <<>> where the function raises ValueError
parse_action(value) ==
    LET action == str_lower(str_strip(value))
    IN  IF action \in {"direct", "upstream", "block"} THEN <<action>> ELSE <<>>

parse_scheme(value) ==
    LET scheme == str_lower(str_strip(value))
    IN  IF scheme \in {"http", "https"} THEN <<scheme>> ELSE <<>>

parse_method(value) ==
    LET method == str_strip(value)
    IN  IF method = "" THEN <<>> ELSE <<str_upper(method)>>

parse_path_prefix(value) ==
    LET prefix == str_strip(value)
    IN  IF prefix = ""
        THEN <<>>
        ELSE IF CharAt(prefix, 1) = "/" THEN <<prefix>> ELSE <<"/" \o prefix>>

\* _parse_upstream: <<<<host, port>>>>, or <<>> where it raises ValueError
parse_upstream(value) ==
    IF str_find(value, ":") = 0
    THEN <<>>
    ELSE LET host == str_strip(rsplit_once(value, ":")[1])
             port == int(rsplit_once(value, ":")[2])
         IN  IF host = "" \/ port = <<>> THEN <<>> ELSE <<<<host, port[1]>>>>

\* The locals of _parse_segment_rule_inner before its loop (lines 141-152).
Locals(host_glob, mode) ==
    [host_glob |-> host_glob, mode |-> mode, strategy |-> "none",
     chunk_size |-> 1024, delay_ms |-> 0, min_chunk |-> None,
     max_chunk |-> None, action |-> "direct", upstream |-> <<>>,
     reason |-> NoneStr, scheme |-> NoneStr, method |-> NoneStr,
     path_prefix |-> NoneStr]

\* One iteration of the loop over parts[1:] on the token p, which holds a
\* "=": the field the token sets and its parsed value (<<>>: the parse
\* raised ValueError), or the field "" for a key the loop does not know.
TokenKey(p) == str_lower(str_strip(split_once(p, "=")[1]))
TokenValue(p) == str_strip(split_once(p, "=")[2])

TokenField(k) ==
    CASE k = "strategy" -> "strategy"
      [] k = "chunk" -> "chunk_size"
      [] k \in {"min", "chunk_min"} -> "min_chunk"
      [] k \in {"max", "chunk_max"} -> "max_chunk"
      [] k = "delay" -> "delay_ms"
      [] k = "action" -> "action"
      [] k = "upstream" -> "upstream"
      [] k = "reason" -> "reason"
      [] k = "scheme" -> "scheme"
      [] k = "method" -> "method"
      [] k = "path_prefix" -> "path_prefix"
      [] OTHER -> ""

TokenParsed(k, v) ==
    CASE k = "strategy" -> <<str_lower(v)>>
      [] k \in {"chunk", "min", "chunk_min", "max", "chunk_max", "delay"} -> int(v)
      [] k = "action" -> parse_action(v)
      [] k = "upstream" -> parse_upstream(v)
      [] k = "reason" -> <<v>>
      [] k = "scheme" -> parse_scheme(v)
      [] k = "method" -> parse_method(v)
      [] k = "path_prefix" -> parse_path_prefix(v)
      [] OTHER -> <<>>

\* SegmentationRule(host_glob=..., policy=SegmentationPolicy(...), ...)
RuleOf(l) ==
    [host_glob |-> l.host_glob,
     policy |-> [mode |-> l.mode, strategy |-> l.strategy,
                 chunk_size |-> l.chunk_size, delay_ms |-> l.delay_ms,
                 min_chunk |-> l.min_chunk, max_chunk |-> l.max_chunk],
     action |-> l.action, upstream |-> l.upstream, reason |-> l.reason,
     scheme |-> l.scheme, method |-> l.method, path_prefix |-> l.path_prefix]

\* _shorten(value)
shorten(value) ==
    IF Len(value) <= max_len
    THEN value
    ELSE SubSeq(value, 1, max_len - 3) \o "..."

\* bool(value) of an optional str: neither None nor ""
Truthy(value) == value # NoneStr /\ value # ""

\* format_rule(rule): the parts joined by " "; the first part is always there
format_rule(rule) ==
    LET part(present, text) == IF present THEN " " \o text ELSE ""
    IN  ("host=" \o rule.host_glob)
        \o part(Truthy(rule.scheme), "scheme=" \o rule.scheme)
        \o part(Truthy(rule.method), "method=" \o rule.method)
        \o part(Truthy(rule.path_prefix), "path=" \o shorten(rule.path_prefix))
        \o part(TRUE, "action=" \o rule.action)
        \o part(rule.upstream # <<>>,
                "upstream=" \o rule.upstream[1] \o ":" \o str(rule.upstream[2]))
        \o part(Truthy(rule.reason), "reason=" \o shorten(rule.reason))
        \o part(TRUE, "mode=" \o rule.policy.mode)
        \o part(TRUE, "strategy=" \o rule.policy.strategy)
        \o part(TRUE, "chunk=" \o str(rule.policy.chunk_size))
        \o part(TRUE, "delay=" \o str(rule.policy.delay_ms))
        \o part(rule.policy.min_chunk # None, "min=" \o str(rule.policy.min_chunk))
        \o part(rule.policy.max_chunk # None, "max=" \o str(rule.policy.max_chunk))

\* The key=value tokens the rule texts are built from in every order: the
\* keys the validation looks at, with values it accepts and values it
\* refuses, and a reason one character longer than max_len.
Tokens ==
    {"strategy=fixed", "strategy=random", "chunk=0", "min=1", "min=3", "max=2",
     "action=upstream", "action=Block", "upstream=u:80",
     "reason=rrrrrrrrrrrrrrrrrrrrrrrrr"}

TokenSeqs == UNION {[1..n -> Tokens] : n \in 0..MaxTokens}

RECURSIVE JoinTokens(_)
JoinTokens(tokens) ==
    IF tokens = <<>> THEN "" ELSE "," \o Head(tokens) \o JoinTokens(Tail(tokens))

\* Texts with the other keys, texts the parser refuses before it validates,
\* and one with spaces around every separator.
OtherTexts ==
    {"*.a=direct,scheme=HTTPS,method=get,path_prefix=v1,delay=5",
     "*.a=direct,strategy=bogus", "*.a=direct,delay=-1",
     "*.a=direct,strategy=random,min=0,max=2",
     "nomode", "*.a=", "*.a= , ", "*.a=direct,bogus", "*.a=direct,colour=red",
     "*.a=direct,chunk=x", "*.a=direct,upstream=u", "*.a=direct,upstream=:80",
     "*.a=direct,upstream=u:p", "*.a=direct,scheme=ftp", "*.a=direct,method=",
     "*.a=direct,path_prefix=", "*.a=direct,action=drop",
     " *.a = segment_upstream , Chunk = 2 ,, chunk_min = 1 , reason = a=b "}

Texts == {"*.a=direct" \o JoinTokens(tokens) : tokens \in TokenSeqs} \cup OtherTexts

RuleTextFrame ==
    UNCHANGED <<server_vars, data_vars, handler_vars, cache_vars, engine_vars,
                hostpolicy_vars, plaindns_vars, chunked_vars, last_vars>>

\* parse_segment_rule(text) is called
RuleTextInit ==
    /\ ServerInit
    /\ DataIdle
    /\ HandlerIdle
    /\ CacheIdle
    /\ EngineIdle
    /\ HostPolicyIdle
    /\ LastIdle
    /\ PlainDnsIdle
    /\ ChunkedIdle
    /\ sr_text \in Texts
    /\ sr_pc = "start"
    /\ sr_parts = <<>>
    /\ sr_idx = 0
    /\ sr_locals = NoRule
    /\ sr_rule = NoRule
    /\ sr_error = ""
    /\ sr_out = ""

\* raise ValueError(message): parse_segment_rule lets it pass (line_no is None)
Reject(message) ==
    /\ sr_pc' = "rejected"
    /\ sr_error' = message
    /\ UNCHANGED <<sr_text, sr_rule, sr_out>>

\* [p.strip() for p in rhs.split(",") if p.strip()]
NonEmptyParts(rhs) ==
    LET raw == str_split(rhs, ",")
    IN  SelectSeq([i \in 1..Len(raw) |-> str_strip(raw[i])], LAMBDA p : p # "")

\* _parse_segment_rule_inner up to its loop: the text is split in host_glob
\* and the parts, the first part is the mode.
ParseSplit ==
    /\ sr_pc = "start"
    /\ IF str_find(sr_text, "=") = 0
       THEN /\ Reject("segment rule must contain '='")
            /\ UNCHANGED <<sr_parts, sr_idx, sr_locals>>
       ELSE LET host_glob == str_strip(split_once(sr_text, "=")[1])
                rhs == str_strip(split_once(sr_text, "=")[2])
                parts == NonEmptyParts(rhs)
            IN  IF parts = <<>>
                THEN /\ Reject("segment rule missing mode")
                     /\ UNCHANGED <<sr_parts, sr_idx, sr_locals>>
                ELSE /\ sr_parts' = parts
                     /\ sr_idx' = 2
                     /\ sr_locals' = Locals(host_glob, parts[1])
                     /\ sr_pc' = "loop"
                     /\ UNCHANGED <<sr_text, sr_rule, sr_error, sr_out>>
    /\ RuleTextFrame

\* One iteration of "for p in parts[1:]".
ParseToken ==
    /\ sr_pc = "loop"
    /\ sr_idx <= Len(sr_parts)
    /\ LET p == sr_parts[sr_idx]
       IN  IF str_find(p, "=") = 0
           THEN /\ Reject("invalid rule token, expected key=value")
                /\ UNCHANGED <<sr_idx, sr_locals>>
           ELSE LET k == TokenKey(p)
                    v == TokenValue(p)
                IN  IF TokenField(k) = ""
                    THEN /\ Reject("unknown rule key")
                         /\ UNCHANGED <<sr_idx, sr_locals>>
                    ELSE IF TokenParsed(k, v) = <<>>
                    THEN /\ Reject("invalid value for " \o k)
                         /\ UNCHANGED <<sr_idx, sr_locals>>
                    ELSE /\ sr_locals' =
                                [sr_locals EXCEPT ![TokenField(k)] = TokenParsed(k, v)[1]]
                         /\ sr_idx' = sr_idx + 1
                         /\ UNCHANGED <<sr_text, sr_pc, sr_rule, sr_error, sr_out>>
    /\ UNCHANGED sr_parts
    /\ RuleTextFrame

\* After the loop: the three validations, then the rule is built and
\* returned.
ParseValidate ==
    /\ sr_pc = "loop"
    /\ sr_idx > Len(sr_parts)
    /\ LET l == sr_locals
           policy_error == validate_policy(l.strategy, l.chunk_size, l.min_chunk, l.max_chunk)
           delay_error == validate_delay(l.delay_ms)
           action_error == validate_action(l.action, l.upstream)
       IN  IF policy_error # ""
           THEN Reject(policy_error)
           ELSE IF delay_error # ""
           THEN Reject(delay_error)
           ELSE IF action_error # ""
           THEN Reject(action_error)
           ELSE /\ sr_rule' = RuleOf(l)
                /\ sr_pc' = "parsed"
                /\ UNCHANGED <<sr_text, sr_error, sr_out>>
    /\ UNCHANGED <<sr_parts, sr_idx, sr_locals>>
    /\ RuleTextFrame

\* format_rule(rule) on the rule parse_segment_rule returned
FormatRule ==
    /\ sr_pc = "parsed"
    /\ sr_out' = format_rule(sr_rule)
    /\ sr_pc' = "formatted"
    /\ UNCHANGED <<sr_text, sr_parts, sr_idx, sr_locals, sr_rule, sr_error>>
    /\ RuleTextFrame

RuleTextNext == ParseSplit \/ ParseToken \/ ParseValidate \/ FormatRule

SpecRuleText == RuleTextInit /\ [][RuleTextNext]_vars

(***************************************************************************)
(* Claims about parse_segment_rule and format_rule                         *)
(***************************************************************************)

\* The constraints on the values of a rule.
ValidValues(strategy, chunk_size, min_chunk, max_chunk, delay_ms, action, upstream) ==
    /\ strategy \in {"none", "fixed", "random"}
    /\ strategy = "fixed" => chunk_size > 0
    /\ strategy = "random" =>
           /\ min_chunk # None /\ max_chunk # None
           /\ min_chunk > 0 /\ max_chunk > 0
           /\ min_chunk <= max_chunk
    /\ delay_ms >= 0
    /\ action = "upstream" => upstream # <<>>
    /\ action = "block" => upstream = <<>>

RuleReturned == sr_pc \in {"parsed", "formatted"}

C22_RuleState ==
    /\ RuleReturned =>
           /\ sr_rule # NoRule
           /\ ValidValues(sr_rule.policy.strategy, sr_rule.policy.chunk_size,
                          sr_rule.policy.min_chunk, sr_rule.policy.max_chunk,
                          sr_rule.policy.delay_ms, sr_rule.action, sr_rule.upstream)
    /\ sr_pc = "rejected" => sr_rule = NoRule /\ sr_error # ""

C22_RejectStep ==
    /\ sr_pc = "loop"
    /\ sr_idx > Len(sr_parts)
    /\ ~ValidValues(sr_locals.strategy, sr_locals.chunk_size, sr_locals.min_chunk,
                    sr_locals.max_chunk, sr_locals.delay_ms, sr_locals.action,
                    sr_locals.upstream)
    => sr_pc' = "rejected" /\ sr_rule' = NoRule /\ sr_error' # ""

\* C22: every rule parse_segment_rule returns has a strategy among none,
\* fixed and random, a chunk_size > 0 if fixed, min_chunk and max_chunk set,
\* positive and ordered if random, a delay_ms >= 0, an upstream if its action
\* is upstream and none if its action is block; a text whose values break
\* one of these is refused with an error and gives no rule.
C22_ParsedRuleIsValid == []C22_RuleState /\ [][C22_RejectStep]_vars

C22_Witness ==
    /\ sr_pc = "parsed"
    /\ sr_rule.policy.strategy = "random"
    /\ sr_rule.policy.min_chunk = 1
    /\ sr_rule.policy.max_chunk = 2

\* The fields a token of the text sets.
FieldsSet == {TokenField(TokenKey(sr_parts[i])) : i \in 2..Len(sr_parts)}

Shows(field, text) == field \in FieldsSet => str_contains(sr_out, text)

\* C23: for a text parse_segment_rule accepts, what format_rule returns for
\* the parsed rule contains the host glob, the mode and the value of every
\* field a token of the text sets.
C23_FormatShowsEveryField ==
    sr_pc = "formatted" =>
        /\ str_contains(sr_out, sr_rule.host_glob)
        /\ str_contains(sr_out, sr_rule.policy.mode)
        /\ Shows("scheme", sr_rule.scheme)
        /\ Shows("method", sr_rule.method)
        /\ Shows("path_prefix", sr_rule.path_prefix)
        /\ Shows("action", sr_rule.action)
        /\ Shows("upstream", sr_rule.upstream[1] \o ":" \o str(sr_rule.upstream[2]))
        /\ Shows("reason", sr_rule.reason)
        /\ Shows("strategy", sr_rule.policy.strategy)
        /\ Shows("chunk_size", str(sr_rule.policy.chunk_size))
        /\ Shows("delay_ms", str(sr_rule.policy.delay_ms))
        /\ Shows("min_chunk", str(sr_rule.policy.min_chunk))
        /\ Shows("max_chunk", str(sr_rule.policy.max_chunk))

(***************************************************************************)
(* resolver.py, PlainDnsResolver.resolve and _resolve_type                 *)
(***************************************************************************)

A_RECORD == 1
AAAA_RECORD == 28

\* The record types of the loop of resolve, in its order.
QueryTypes == <<A_RECORD, AAAA_RECORD>>

\* What one _query_udp or _query_tcp call, _ensure_txid and _parse_response
\* do with the query: the socket raises OSError or times out, the response
\* carries another transaction id, it is too short or cut off, or it parses,
\* with or without the TC flag and with or without addresses of the type.
Outcomes ==
    {"OSError", "TimeoutError", "mismatch", "malformed", "truncated_answers",
     "truncated_empty", "answers", "empty"}

\* The exception the three calls raise for an outcome (NoneStr: none).
Raised(o) ==
    CASE o \in {"OSError", "TimeoutError"} -> o
      [] o \in {"mismatch", "malformed"} -> "ValueError"
      [] OTHER -> NoneStr

\* truncated and addrs of _parse_response
HasTcFlag(o) == o \in {"truncated_answers", "truncated_empty"}
HasAddrs(o) == o \in {"answers", "truncated_answers"}

\* The UDP attempt of _resolve_type ends in its except clause, which catches
\* OSError, TimeoutError and ValueError; a response with the TC flag raises
\* ValueError("DNS response truncated").
udp_fails(o) == Raised(o) \in {"OSError", "TimeoutError", "ValueError"} \/ HasTcFlag(o)

\* A TCP attempt ends in its except clause; the TC flag is not looked at.
tcp_fails(o) == Raised(o) \in {"OSError", "TimeoutError", "ValueError"}

Attempt(qtype, proto, o) == [qtype |-> qtype, proto |-> proto, outcome |-> o]

PlainDnsFrame ==
    UNCHANGED <<server_vars, data_vars, handler_vars, cache_vars, engine_vars,
                hostpolicy_vars, ruletext_vars, chunked_vars, last_vars>>

\* PlainDnsResolver(server_ip, transport=...).resolve(host, port) is called
PlainDnsInit ==
    /\ ServerInit
    /\ DataIdle
    /\ HandlerIdle
    /\ CacheIdle
    /\ EngineIdle
    /\ HostPolicyIdle
    /\ LastIdle
    /\ RuleTextIdle
    /\ ChunkedIdle
    /\ dns_transport \in {"udp", "tcp"}
    /\ dns_pc = "query"
    /\ dns_q = 1
    /\ dns_log = <<>>
    /\ dns_addrs = {}
    /\ dns_used = [transport |-> dns_transport, fallback |-> 0]
    /\ dns_ret = [outcome |-> "none", trace |-> NoTrace]

\* _resolve_type returned (addrs, ttl, transport, fallback) for the outcome
\* o: the rest of the loop body of resolve, then the next record type.
TypeResolved(o, transport, fallback) ==
    /\ dns_addrs' = IF HasAddrs(o) THEN dns_addrs \cup {QueryTypes[dns_q]} ELSE dns_addrs
    /\ dns_used' =
           [transport |-> IF transport = "tcp" THEN "tcp" ELSE dns_used.transport,
            fallback |-> IF fallback = 1 THEN 1 ELSE dns_used.fallback]
    /\ dns_q' = dns_q + 1
    /\ dns_pc' = IF dns_q = Len(QueryTypes) THEN "finish" ELSE "query"
    /\ UNCHANGED dns_ret

\* _resolve_type raised ValueError, which ends resolve.
TypeFailed ==
    /\ dns_pc' = "ended"
    /\ dns_ret' = [outcome |-> "ValueError", trace |-> NoTrace]
    /\ UNCHANGED <<dns_addrs, dns_used, dns_q>>

\* _resolve_type with transport "tcp": one TCP attempt.
QueryTcpOnly ==
    /\ dns_pc = "query"
    /\ dns_transport = "tcp"
    /\ \E o \in Outcomes :
           /\ dns_log' = Append(dns_log, Attempt(QueryTypes[dns_q], "tcp", o))
           /\ IF tcp_fails(o) THEN TypeFailed ELSE TypeResolved(o, "tcp", 0)
    /\ UNCHANGED dns_transport
    /\ PlainDnsFrame

\* _resolve_type with transport "udp": the UDP attempt.
QueryUdp ==
    /\ dns_pc = "query"
    /\ dns_transport = "udp"
    /\ \E o \in Outcomes :
           /\ dns_log' = Append(dns_log, Attempt(QueryTypes[dns_q], "udp", o))
           /\ IF udp_fails(o)
              THEN /\ dns_pc' = "fallback"
                   /\ UNCHANGED <<dns_addrs, dns_used, dns_q, dns_ret>>
              ELSE TypeResolved(o, "udp", 0)
    /\ UNCHANGED dns_transport
    /\ PlainDnsFrame

\* The except clause of the UDP attempt: the same query over TCP.
QueryTcpFallback ==
    /\ dns_pc = "fallback"
    /\ \E o \in Outcomes :
           /\ dns_log' = Append(dns_log, Attempt(QueryTypes[dns_q], "tcp", o))
           /\ IF tcp_fails(o) THEN TypeFailed ELSE TypeResolved(o, "tcp", 1)
    /\ UNCHANGED dns_transport
    /\ PlainDnsFrame

\* After the loop: no address raises ValueError, else the trace is set and
\* the result returned.
ResolveFinish ==
    /\ dns_pc = "finish"
    /\ dns_pc' = "ended"
    /\ dns_ret' =
           IF dns_addrs = {}
           THEN [outcome |-> "ValueError", trace |-> NoTrace]
           ELSE [outcome |-> "returned", trace |-> dns_used]
    /\ UNCHANGED <<dns_transport, dns_q, dns_log, dns_addrs, dns_used>>
    /\ PlainDnsFrame

PlainDnsNext == QueryTcpOnly \/ QueryUdp \/ QueryTcpFallback \/ ResolveFinish

SpecPlainDns == PlainDnsInit /\ [][PlainDnsNext]_vars

(***************************************************************************)
(* Claims about the transports of PlainDnsResolver                         *)
(***************************************************************************)

AttemptsOver(proto) == {i \in 1..Len(dns_log) : dns_log[i].proto = proto}

\* Every query goes over UDP first, at most once over each transport, A
\* before AAAA; with transport "tcp" there is no UDP attempt.
AttemptsInOrder ==
    /\ \A i, j \in 1..Len(dns_log) :
           /\ i < j => ~(dns_log[i].qtype = AAAA_RECORD /\ dns_log[j].qtype = A_RECORD)
           /\ i # j /\ dns_log[i].qtype = dns_log[j].qtype =>
                  dns_log[i].proto # dns_log[j].proto
    /\ dns_transport = "tcp" => AttemptsOver("udp") = {}
    /\ Cardinality(AttemptsOver("udp")) <= 2
    /\ Cardinality(AttemptsOver("tcp")) <= 2

\* The TCP attempt i of transport "udp" directly follows the UDP attempt of the
\* same query, whose outcome is one of `causes'.
FollowsUdp(i, causes) ==
    /\ i > 1
    /\ dns_log[i - 1].proto = "udp"
    /\ dns_log[i - 1].qtype = dns_log[i].qtype
    /\ dns_log[i - 1].outcome \in causes

\* A successful TCP retry is recorded as fallback 1; the trace of a returned
\* result is what the loop recorded.
FallbackRecorded ==
    /\ (\E i \in AttemptsOver("tcp") : dns_transport = "udp" /\ ~tcp_fails(dns_log[i].outcome))
           => dns_used.fallback = 1 /\ dns_used.transport = "tcp"
    /\ dns_ret.outcome = "returned" => dns_ret.trace = dns_used

\* C24: with transport udp each query (A, then AAAA) goes over UDP first; it
\* goes over TCP only if its UDP attempt raised an I/O error, timed out or
\* returned a response with the TC flag, then once, and fallback=1 is
\* recorded; after a UDP success there is no TCP attempt.  With transport tcp
\* there is no UDP attempt.  One resolve makes at most two UDP and two TCP
\* attempts.
C24_TcpOnlyAfterUdpFailure ==
    /\ AttemptsInOrder
    /\ FallbackRecorded
    /\ dns_transport = "udp" =>
           \A i \in AttemptsOver("tcp") :
               FollowsUdp(i, {"OSError", "TimeoutError", "truncated_answers", "truncated_empty"})

(***************************************************************************)
(* main.py, read_chunked_body                                              *)
(*                                                                         *)
(* A byte string is a sequence of one-character strings.                   *)
(***************************************************************************)

\* Most chunks before the zero-size chunk in a stream drawn.
MaxChunkCount == 2

CRLF == <<"\r", "\n">>

SetMin(S) == CHOOSE x \in S : \A y \in S : x <= y
SetMax(S) == CHOOSE x \in S : \A y \in S : x >= y

\* The positions in buf where a CRLF starts.
CrlfAt(buf) == {i \in 1..(Len(buf) - 1) : buf[i] = "\r" /\ buf[i + 1] = "\n"}

\* As LineEnd, but what a reader without a buffer takes: all that recv gave
LineEndWholeBuffer(buf) == IF CrlfAt(buf) = {} THEN 0 ELSE Len(buf)

\* buf.find(b"\r\n") + len(b"\r\n"): the index of the last byte of the first
\* CRLF in buf, 0 if buf holds none
LineEnd(buf) == IF CrlfAt(buf) = {} THEN 0 ELSE SetMin(CrlfAt(buf)) + 1

\* The bytes bytes.strip() removes.
BytesWhitespace == {" ", "\t", "\r", "\n"}

\* line.split(b";", 1)[0].strip().rstrip(b"\r\n")
SizeToken(line) ==
    LET semis == {i \in 1..Len(line) : line[i] = ";"}
        first == IF semis = {} THEN line ELSE SubSeq(line, 1, SetMin(semis) - 1)
        kept == {i \in 1..Len(first) : first[i] \notin BytesWhitespace}
    IN  IF kept = {} THEN <<>> ELSE SubSeq(first, SetMin(kept), SetMax(kept))

\* int(size_token, 16) on hexadecimal digits: <<n>>, or <<>> where int raises
\* ValueError.  (int also takes a sign, a 0x prefix and underscores; no stream
\* drawn has them.)
HexDigits == <<"0", "1", "2", "3", "4", "5", "6", "7", "8", "9", "a", "b", "c", "d", "e", "f">>
HexDigitsUpper == <<"0", "1", "2", "3", "4", "5", "6", "7", "8", "9", "A", "B", "C", "D", "E", "F">>

HexValue(c) == (CHOOSE i \in 1..16 : HexDigits[i] = c \/ HexDigitsUpper[i] = c) - 1

RECURSIVE hex_value(_, _)
hex_value(token, acc) ==
    IF token = <<>> THEN acc ELSE hex_value(Tail(token), 16 * acc + HexValue(Head(token)))

HexChars == {HexDigits[k] : k \in 1..16} \cup {HexDigitsUpper[k] : k \in 1..16}

hex_int(token) ==
    IF token # <<>> /\ {token[i] : i \in 1..Len(token)} \subseteq HexChars
    THEN <<hex_value(token, 0)>>
    ELSE <<>>

\* A chunk as the client writes it: size token, chunk extension, data.
Chunk(size, ext, data) == [size |-> size, ext |-> ext, data |-> data]

\* The chunks the streams are made of in every order: one byte; a CRLF as
\* data, with a chunk extension and a leading zero in the size.
ChunkKinds ==
    {Chunk(<<"1">>, <<>>, <<"x">>),
     Chunk(<<"0", "2">>, <<";", "e">>, CRLF)}

\* A chunk of ten bytes, whose size is the hexadecimal digit A.
TenByteChunk ==
    Chunk(<<"A">>, <<>>, <<"0", "1", "2", "3", "4", "\r", "\n", "7", "8", "9">>)

ChunkLists ==
    UNION {[1..n -> ChunkKinds] : n \in 0..MaxChunkCount} \cup {<<TenByteChunk>>}

\* The trailer sections: none, or one trailer line.
TrailerLists == {<<>>, <<<<"T", ":", "1">>>>}

\* The bytes of a chunk, of the chunks, and of the whole stream: the chunks,
\* the zero-size chunk, the trailer lines and the blank line.
ChunkBytes(c) == c.size \o c.ext \o CRLF \o c.data \o CRLF

ChunksBytes(chunks) == Concat([i \in 1..Len(chunks) |-> ChunkBytes(chunks[i])])

StreamBytes(chunks, trailers) ==
    ChunksBytes(chunks) \o <<"0">> \o CRLF
        \o Concat([i \in 1..Len(trailers) |-> trailers[i] \o CRLF]) \o CRLF

ChunkedFrame ==
    UNCHANGED <<server_vars, data_vars, handler_vars, cache_vars, engine_vars,
                hostpolicy_vars, ruletext_vars, plaindns_vars, last_vars>>

\* read_chunked_body(client_sock) is called; the client sends the first
\* ch_cut bytes of a well-formed stream (all of it, or it closes before).
ChunkedInit ==
    /\ ServerInit
    /\ DataIdle
    /\ HandlerIdle
    /\ CacheIdle
    /\ EngineIdle
    /\ HostPolicyIdle
    /\ LastIdle
    /\ RuleTextIdle
    /\ PlainDnsIdle
    /\ ch_chunks \in ChunkLists
    /\ ch_trailers \in TrailerLists
    /\ ch_cut \in 0..Len(StreamBytes(ch_chunks, ch_trailers))
    /\ ch_rest = SubSeq(StreamBytes(ch_chunks, ch_trailers), 1, ch_cut)
    /\ ch_buf = <<>>
    /\ ch_out = <<>>
    /\ ch_pc = "size"
    /\ ch_need = 0

\* read_until would return: the delimiter is in buf, or recv gives b"".
LineReady == LineEnd(ch_buf) # 0 \/ ch_rest = <<>>

\* What read_until returns then: buf up to the delimiter, else all of buf.
LineRead == IF LineEnd(ch_buf) # 0 THEN SubSeq(ch_buf, 1, LineEnd(ch_buf)) ELSE ch_buf

\* buf after "del buf[:end]"
Drop(buf, n) == SubSeq(buf, n + 1, Len(buf))

\* recv_more() with data: recv returns some of the bytes sent and not yet
\* received (the streams are shorter than 4096 bytes), called by read_until
\* while buf holds no delimiter and by read_exact while buf is short.
RecvMore ==
    /\ ch_rest # <<>>
    /\ \/ ch_pc \in {"size", "trailer"} /\ LineEnd(ch_buf) = 0
       \/ ch_pc = "data" /\ Len(ch_buf) < ch_need
    /\ \E n \in 1..Len(ch_rest) :
           /\ ch_buf' = ch_buf \o SubSeq(ch_rest, 1, n)
           /\ ch_rest' = Drop(ch_rest, n)
    /\ UNCHANGED <<ch_chunks, ch_trailers, ch_cut, ch_out, ch_pc, ch_need>>
    /\ ChunkedFrame

\* The chunk-size line is read and parsed: no line ends the loop, a size
\* that is no hexadecimal number raises ValueError, size 0 leads to the
\* trailers, any other size to read_exact(size + 2).
ReadSizeLine ==
    /\ ch_pc = "size"
    /\ LineReady
    /\ \E line \in {LineRead} : \E size \in {hex_int(SizeToken(line))} :
           /\ ch_buf' = Drop(ch_buf, Len(line))
           /\ ch_out' = ch_out \o line
           /\ ch_pc' = CASE line = <<>> -> "returned"
                         [] line # <<>> /\ size = <<>> -> "raised"
                         [] line # <<>> /\ size = <<0>> -> "trailer"
                         [] OTHER -> "data"
           /\ ch_need' = IF size \notin {<<>>, <<0>>} THEN size[1] + 2 ELSE ch_need
    /\ UNCHANGED <<ch_chunks, ch_trailers, ch_cut, ch_rest>>
    /\ ChunkedFrame

\* read_exact(size + 2) returns: buf holds n bytes, or recv gives b"".
ReadData ==
    /\ ch_pc = "data"
    /\ Len(ch_buf) >= ch_need \/ ch_rest = <<>>
    /\ LET chunk == SubSeq(ch_buf, 1, Min(ch_need, Len(ch_buf)))
       IN  /\ ch_buf' = Drop(ch_buf, Len(chunk))
           /\ IF Len(chunk) < ch_need
              THEN ch_pc' = "raised" /\ UNCHANGED ch_out
              ELSE ch_pc' = "size" /\ ch_out' = ch_out \o chunk
    /\ UNCHANGED <<ch_chunks, ch_trailers, ch_cut, ch_rest, ch_need>>
    /\ ChunkedFrame

\* One line after the zero-size chunk is read: a trailer, or the blank line.
ReadTrailer ==
    /\ ch_pc = "trailer"
    /\ LineReady
    /\ LET line == LineRead
       IN  /\ ch_buf' = Drop(ch_buf, Len(line))
           /\ IF line = <<>>
              THEN ch_pc' = "returned" /\ UNCHANGED ch_out
              ELSE /\ ch_out' = ch_out \o line
                   /\ ch_pc' = IF line = CRLF THEN "returned" ELSE "trailer"
    /\ UNCHANGED <<ch_chunks, ch_trailers, ch_cut, ch_rest, ch_need>>
    /\ ChunkedFrame

ChunkedNext == RecvMore \/ ReadSizeLine \/ ReadData \/ ReadTrailer

SpecChunked == ChunkedInit /\ [][ChunkedNext]_vars

\* The function runs in one thread, and the client sends what it sends and
\* closes: a recv that waits returns, a step that can be taken is taken.
SpecChunkedFair == SpecChunked /\ WF_vars(ChunkedNext)

(***************************************************************************)
(* Claims about read_chunked_body                                          *)
(***************************************************************************)

WholeStream == StreamBytes(ch_chunks, ch_trailers)

ChunkedEnded == ch_pc \in {"returned", "raised"}

\* The client closed after the size line of some chunk and before the last
\* byte of the chunk (its data and the CRLF after them).
CutInsideChunk ==
    \E k \in 1..Len(ch_chunks) :
        LET before == Len(ChunksBytes(SubSeq(ch_chunks, 1, k - 1)))
            c == ch_chunks[k]
        IN  /\ before + Len(c.size) + Len(c.ext) + 2 <= ch_cut
            /\ ch_cut < before + Len(ChunkBytes(c))

C25_ChunkedState ==
    /\ ChunkedEnded /\ ch_cut = Len(WholeStream) =>
           ch_pc = "returned" /\ ch_out = WholeStream
    /\ ChunkedEnded /\ CutInsideChunk => ch_pc = "raised"

\* C25: for every well-formed chunked stream and every way recv splits it,
\* read_chunked_body terminates and returns exactly the bytes of the stream
\* up to and including the blank line after the trailers; if the client
\* closes inside a chunk's data it raises an error.
C25_ChunkedBodyReturnedRaw == []C25_ChunkedState /\ <>ChunkedEnded

C25_Witness ==
    /\ ch_pc = "returned"
    /\ ch_cut = Len(WholeStream)
    /\ Len(ch_chunks) = MaxChunkCount
    /\ ch_trailers # <<>>
    /\ ch_out = WholeStream

(***************************************************************************)
(* Idle state of every part modelled above, for the parts that follow      *)
(***************************************************************************)

EarlierIdle ==
    /\ ServerInit
    /\ DataIdle
    /\ HandlerIdle
    /\ CacheIdle
    /\ EngineIdle
    /\ HostPolicyIdle
    /\ RuleTextIdle
    /\ PlainDnsIdle
    /\ ChunkedIdle

(***************************************************************************)
(* tunnel.py: perform_upstream_connect and _recv_headers                   *)
(*                                                                         *)
(* Bytes are written as a string.  The character "#" stands for one whole  *)
(* recv of 4096 bytes of header text that holds no CR and no LF (a long    *)
(* header value), so that a response longer than max_bytes can be drawn.   *)
(***************************************************************************)

\* Most recv calls that return text, per response drawn.
MaxPieces == 3

\* max_bytes of _recv_headers and the size asked of recv
max_bytes == 65536
recv_size == 4096

CRLFCRLF == "\r\n\r\n"

\* s.find(sub) + 1 for any sub: position of the first sub in s, 0 if none
find_sub(s, sub) ==
    LET at == {i \in 1..(Len(s) - Len(sub) + 1) : SubSeq(s, i, i + Len(sub) - 1) = sub}
    IN  IF at = {} THEN 0 ELSE CHOOSE i \in at : \A j \in at : i <= j

\* len(data), every "#" counting recv_size bytes
bytes_len(s) ==
    Len(s) + (recv_size - 1) * Cardinality({i \in 1..Len(s) : CharAt(s, i) = "#"})

\* What one recv on the upstream proxy's socket returns when it returns text.
Pieces ==
    { "HTTP/1.1 200 OK\r\n", "HTTP/1.1 200", "HTTP/1.1 407 No\r\n", "HTTP/1.1\r\n",
      "HTTP/1.1 2x0 OK\r\n", "\r\n", "\r", "\n\r\n", "#" }

\* response.split(b"\r\n", 1)[0]
first_line(response) ==
    LET i == find_sub(response, "\r\n")
    IN  IF i = 0 THEN response ELSE SubSeq(response, 1, i - 1)

\* The value perform_upstream_connect returns for the bytes _recv_headers
\* gave it (decode with errors="replace" never raises).
status_ok(response) ==
    IF response = ""
    THEN FALSE
    ELSE LET parts == str_split(first_line(response), " ")
         IN  IF Len(parts) < 2
             THEN FALSE
             ELSE int(parts[2]) = <<200>>

UpConnFrame ==
    UNCHANGED <<earlier_vars, openup_vars, client_vars, score_vars, cachelock_vars, fwdhdr_vars, readname_vars>>

\* perform_upstream_connect(upstream, target_host, target_port, ...) is called
UpConnInit ==
    /\ EarlierIdle
    /\ OpenUpIdle
    /\ ClientIdle
    /\ ScoreIdle
    /\ CacheLockIdle
    /\ FwdHdrIdle
    /\ ReadNameIdle
    /\ uc_pc = "send"
    /\ uc_data = ""
    /\ uc_recvs = <<>>
    /\ uc_response = ""
    /\ uc_ret = "none"

\* upstream.settimeout(idle_timeout); upstream.sendall(request): sent, or
\* the exception leaves the function.
UcSend ==
    /\ uc_pc = "send"
    /\ \E ok \in BOOLEAN : uc_pc' = IF ok THEN "recv" ELSE "raised"
    /\ UNCHANGED <<uc_data, uc_recvs, uc_response, uc_ret>>
    /\ UpConnFrame

\* One pass of the loop of _recv_headers, entered while CRLF CRLF is not in
\* data: recv raises (return b""), returns b"" (break) or returns a chunk
\* (break when data got longer than max_bytes).  When the loop is left the
\* value returned is in uc_response.
UcRecv ==
    /\ uc_pc = "recv"
    /\ \/ \E x \in {"TimeoutError", "OSError"} :
             /\ uc_recvs' = Append(uc_recvs, x)
             /\ uc_response' = ""
             /\ uc_pc' = "parse"
             /\ UNCHANGED uc_data
       \/ /\ uc_recvs' = Append(uc_recvs, "eof")
          /\ uc_response' = uc_data
          /\ uc_pc' = "parse"
          /\ UNCHANGED uc_data
       \/ \E chunk \in Pieces :
             /\ chunk = "#" \/ (Len(uc_recvs) < MaxPieces /\ find_sub(uc_data, "#") = 0)
             /\ uc_recvs' = Append(uc_recvs, "data")
             /\ uc_data' = uc_data \o chunk
             /\ IF bytes_len(uc_data') > max_bytes \/ find_sub(uc_data', CRLFCRLF) # 0
                THEN uc_response' = uc_data' /\ uc_pc' = "parse"
                ELSE uc_response' = uc_response /\ uc_pc' = "recv"
    /\ UNCHANGED uc_ret
    /\ UpConnFrame

\* The rest of perform_upstream_connect: the status line of the response.
UcParse ==
    /\ uc_pc = "parse"
    /\ uc_ret' = IF status_ok(uc_response) THEN "true" ELSE "false"
    /\ uc_pc' = "returned"
    /\ UNCHANGED <<uc_data, uc_recvs, uc_response>>
    /\ UpConnFrame

UpConnNext == UcSend \/ UcRecv \/ UcParse

\* One call of perform_upstream_connect, for every way the upstream proxy
\* answers: text in up to MaxPieces recv calls, long header text, end of
\* stream, timeout, socket error.
SpecUpConn == UpConnInit /\ [][UpConnNext]_vars

(***************************************************************************)
(* Claims about perform_upstream_connect (checked under SpecUpConn)        *)
(***************************************************************************)

\* A complete header block was received: the bytes received hold CRLF CRLF
\* and the block it ends is no longer than max_bytes.
HeaderBlockComplete ==
    LET i == find_sub(uc_data, CRLFCRLF)
    IN  i # 0 /\ bytes_len(SubSeq(uc_data, 1, i + 3)) <= max_bytes

\* The second token of the first line received is an integer equal to 200.
SecondTokenIs200 ==
    LET line == first_line(uc_data)
        sp == find_sub(line, " ")
        rest == From(line, sp)
        sp2 == find_sub(rest, " ")
        token == IF sp2 = 0 THEN rest ELSE SubSeq(rest, 1, sp2 - 1)
    IN  sp # 0 /\ int(token) = <<200>>

\* C31: perform_upstream_connect returns success if and only if a complete
\* response header block (ended by CRLF CRLF, within 65536 bytes) was received
\* and the second token of its first line is the integer 200; a timeout, a
\* socket error and an end of stream before the end of the headers give
\* failure.
C31_SuccessIffCompleteHeader200 ==
    uc_pc = "returned" =>
        /\ uc_ret = "true" <=> (HeaderBlockComplete /\ SecondTokenIs200)
        /\ (uc_recvs # <<>> /\ uc_recvs[Len(uc_recvs)] \in {"TimeoutError", "OSError", "eof"})
               => uc_ret = "false"

(***************************************************************************)
(* tunnel.py: open_upstream                                                *)
(***************************************************************************)

\* Most addresses the resolver returns.
MaxAddrs == 3

Families == {"AF_INET", "AF_INET6"}

\* What resolver.resolve(host, port) returns: a list of (family, ip); the ip
\* is written as the position it has in the list.
AddrLists ==
    UNION {[1..n -> Families] : n \in 0..MaxAddrs}

\* The OSError subclasses sock.connect raises, and its success.
ConnectErrors == {"TimeoutError", "ConnectionRefusedError"}

\* An exception of open_upstream: its type and the address it was raised for.
NoError == [type |-> NoneStr, addr |-> 0]

NoAddresses == [type |-> "OSError: No addresses resolved for connection", addr |-> 0]

\* sock.close() in the except clause, unchanged by a close that raises
CloseSockLeavesOpen(sock) == sock

CloseSock(sock) == [sock EXCEPT !.state = "closed"]

\* What is raised after the loop
raise_after_loop(err) == IF err # NoError THEN err ELSE NoAddresses

OpenUpFrame ==
    UNCHANGED <<earlier_vars, upconn_vars, client_vars, score_vars, cachelock_vars, fwdhdr_vars, readname_vars>>

\* open_upstream(host, port, connect_timeout, idle_timeout, resolver) is called
OpenUpInit ==
    /\ EarlierIdle
    /\ UpConnIdle
    /\ ClientIdle
    /\ ScoreIdle
    /\ CacheLockIdle
    /\ FwdHdrIdle
    /\ ReadNameIdle
    /\ ou_pc = "resolve"
    /\ ou_addrs = <<>>
    /\ ou_idx = 0
    /\ ou_socks = <<>>
    /\ ou_log = <<>>
    /\ last_error = NoError
    /\ ou_ret = [how |-> "none", sock |-> 0, error |-> NoError]

\* addrs = resolver.resolve(host, port): a list, or the exception of the
\* resolver leaves open_upstream.
OuResolve ==
    /\ ou_pc = "resolve"
    /\ \/ \E addrs \in AddrLists :
             /\ ou_addrs' = addrs
             /\ ou_idx' = 1
             /\ ou_pc' = "loop"
             /\ UNCHANGED ou_ret
       \/ /\ ou_pc' = "raised"
          /\ ou_ret' = [how |-> "raised", sock |-> 0,
                        error |-> [type |-> "gaierror", addr |-> 0]]
          /\ UNCHANGED <<ou_addrs, ou_idx>>
    /\ UNCHANGED <<ou_socks, ou_log, last_error>>
    /\ OpenUpFrame

\* The head of the for loop: socket.socket(family, SOCK_STREAM) for the next
\* address (an OSError of it is outside the try block), or the end of the
\* loop: raise last_error, or OSError("No addresses ...").
OuNext ==
    /\ ou_pc = "loop"
    /\ IF ou_idx > Len(ou_addrs)
       THEN /\ ou_pc' = "raised"
            /\ ou_ret' = [how |-> "raised", sock |-> 0, error |-> raise_after_loop(last_error)]
            /\ UNCHANGED ou_socks
       ELSE \/ /\ ou_socks' = Append(ou_socks, [addr |-> ou_idx, state |-> "open",
                                                 timeout |-> NoneStr])
               /\ ou_pc' = "connect"
               /\ UNCHANGED ou_ret
            \/ /\ ou_pc' = "raised"
               /\ ou_ret' = [how |-> "raised", sock |-> 0,
                             error |-> [type |-> "OSError: socket()", addr |-> ou_idx]]
               /\ UNCHANGED ou_socks
    /\ UNCHANGED <<ou_addrs, ou_idx, ou_log, last_error>>
    /\ OpenUpFrame

\* The try block for the socket just created: settimeout(connect_timeout),
\* connect, then settimeout(idle_timeout) and return; on OSError remember it
\* and close the socket.
OuConnect ==
    /\ ou_pc = "connect"
    /\ LET n == Len(ou_socks) IN
       \/ /\ ou_log' = Append(ou_log, [addr |-> ou_idx, result |-> "ok"])
          /\ ou_socks' = [ou_socks EXCEPT ![n].timeout = "idle_timeout"]
          /\ ou_ret' = [how |-> "returned", sock |-> n, error |-> NoError]
          /\ ou_pc' = "returned"
          /\ UNCHANGED <<ou_idx, last_error>>
       \/ \E exc \in ConnectErrors :
             /\ ou_log' = Append(ou_log, [addr |-> ou_idx, result |-> exc])
             /\ last_error' = [type |-> exc, addr |-> ou_idx]
             /\ ou_socks' = [ou_socks EXCEPT
                                ![n] = CloseSock([@ EXCEPT !.timeout = "connect_timeout"])]
             /\ ou_idx' = ou_idx + 1
             /\ ou_pc' = "loop"
             /\ UNCHANGED ou_ret
    /\ UNCHANGED ou_addrs
    /\ OpenUpFrame

OpenUpNext == OuResolve \/ OuNext \/ OuConnect

\* One call of open_upstream, for every list of up to MaxAddrs addresses and
\* every outcome of each socket() and connect().
SpecOpenUp == OpenUpInit /\ [][OpenUpNext]_vars

(***************************************************************************)
(* Claims about open_upstream (checked under SpecOpenUp)                   *)
(***************************************************************************)

\* The connects made so far went through the addresses in the order returned.
ConnectsInOrder == \A k \in 1..Len(ou_log) : ou_log[k].addr = k

\* The sockets of the failed connects are closed.
FailedSocksClosed ==
    \A k \in 1..Len(ou_log) :
        ou_log[k].result # "ok" =>
            \E n \in 1..Len(ou_socks) :
                ou_socks[n].addr = ou_log[k].addr /\ ou_socks[n].state = "closed"

MaxPayload == 3

\* max_size of recv_until
max_size == 65536

\* s.split(sub) for any separator
RECURSIVE split_sub(_, _)
split_sub(s, sub) ==
    LET i == find_sub(s, sub)
    IN  IF i = 0
        THEN <<s>>
        ELSE <<SubSeq(s, 1, i - 1)>> \o split_sub(From(s, i + Len(sub) - 1), sub)

\* split_headers_and_body(raw): (head + sep, tail), or (raw, b"") without sep
split_headers_and_body(raw) ==
    LET i == find_sub(raw, CRLFCRLF)
    IN  IF i = 0 THEN <<raw, "">> ELSE <<SubSeq(raw, 1, i + 3), From(raw, i + 3)>>

\* The lines parse_http_request works on
header_lines(header_bytes) ==
    LET i == find_sub(header_bytes, CRLFCRLF)
    IN  split_sub(IF i = 0 THEN header_bytes ELSE SubSeq(header_bytes, 1, i - 1), "\r\n")

\* parse_http_request raises ValueError
request_invalid(header_bytes) ==
    Len(str_split(header_lines(header_bytes)[1], " ")) < 3

\* request.method
request_method(header_bytes) == str_split(header_lines(header_bytes)[1], " ")[1]

\* headers.get(name): the value of the last line with that name, else None
header_get(header_bytes, name) ==
    LET lines == header_lines(header_bytes)
        named == {n \in 2..Len(lines) :
                     /\ find_sub(lines[n], ":") # 0
                     /\ str_lower(str_strip(split_once(lines[n], ":")[1])) = name}
    IN  IF named = {}
        THEN NoneStr
        ELSE str_strip(split_once(lines[CHOOSE n \in named : \A m \in named : m <= n], ":")[2])

\* The header blocks drawn: a CONNECT request, one with a Content-Length, and
\* a request line of two parts.
HeaderBlocks ==
    { "CONNECT h:1 HTTP/1.1\r\n\r\n",
      "CONNECT h:1 HTTP/1.1\r\nContent-Length: 1\r\n\r\n",
      "CONNECT h:1\r\n\r\n" }

\* The bytes the client sends after the header block (the first bytes of
\* what it wants tunnelled, e.g. a TLS ClientHello)
Payloads == {SubSeq("xyzuvw", 1, n) : n \in 0..MaxPayload}

\* What a recv(n) can return from the bytes on their way: a non-empty prefix
\* of at most n bytes, or b"" when the client has sent everything and closed.
RecvChunks(rest, n) ==
    IF rest = "" THEN {""} ELSE {SubSeq(rest, 1, k) : k \in 1..Min(n, Len(rest))}

ClientFrame ==
    UNCHANGED <<earlier_vars, upconn_vars, openup_vars, score_vars, cachelock_vars, fwdhdr_vars, readname_vars>>

\* handle_client(client_sock, client_addr) is called; the client sends a
\* header block followed by its payload, then closes its sending side.
ClientInit ==
    /\ EarlierIdle
    /\ UpConnIdle
    /\ OpenUpIdle
    /\ ScoreIdle
    /\ CacheLockIdle
    /\ FwdHdrIdle
    /\ ReadNameIdle
    /\ hc_stream \in {h \o p : h \in HeaderBlocks, p \in Payloads}
    /\ hc_rest = hc_stream
    /\ hc_raw = ""
    /\ hc_body = ""
    /\ hc_remaining = 0
    /\ hc_up = ""
    /\ hc_pc = "recv_until"

\* One pass of the loop of recv_until, entered while the marker is not in
\* data.
HcRecvUntil ==
    /\ hc_pc = "recv_until"
    /\ \E chunk \in RecvChunks(hc_rest, recv_size) :
          /\ hc_rest' = From(hc_rest, Len(chunk))
          /\ hc_raw' = hc_raw \o chunk
          /\ hc_pc' = IF chunk = "" THEN "parse"
                      ELSE IF Len(hc_raw') > max_size THEN "raised"
                      ELSE IF find_sub(hc_raw', CRLFCRLF) # 0 THEN "parse"
                      ELSE "recv_until"
    /\ UNCHANGED <<hc_stream, hc_body, hc_remaining, hc_up>>
    /\ ClientFrame

\* From 'if not raw' to the start of the body loop: split, parse (400 on
\* ValueError), Transfer-Encoding (501), Content-Length (400 when not an int).
HcParse ==
    /\ hc_pc = "parse"
    /\ LET header_bytes == split_headers_and_body(hc_raw)[1]
           body_initial == split_headers_and_body(hc_raw)[2]
           cl == header_get(header_bytes, "content-length")
           te == header_get(header_bytes, "transfer-encoding")
       IN  IF hc_raw = ""
           THEN hc_pc' = "done" /\ UNCHANGED <<hc_body, hc_remaining>>
           ELSE IF request_invalid(header_bytes)
           THEN hc_pc' = "error:400" /\ UNCHANGED <<hc_body, hc_remaining>>
           ELSE IF te \notin {NoneStr, ""} /\ str_lower(te) # "identity"
           THEN hc_pc' = "error:501" /\ UNCHANGED <<hc_body, hc_remaining>>
           ELSE IF cl \in {NoneStr, ""}
           THEN hc_pc' = "dispatch" /\ hc_body' = body_initial /\ UNCHANGED hc_remaining
           ELSE IF int(cl) = <<>>
           THEN hc_pc' = "error:400" /\ UNCHANGED <<hc_body, hc_remaining>>
           ELSE /\ hc_body' = body_initial
                /\ hc_remaining' = int(cl)[1] - Len(body_initial)
                /\ hc_pc' = IF hc_remaining' > 0 THEN "body" ELSE "dispatch"
    /\ UNCHANGED <<hc_stream, hc_rest, hc_raw, hc_up>>
    /\ ClientFrame

\* One pass of the body loop: recv(min(4096, remaining)).
HcBody ==
    /\ hc_pc = "body"
    /\ \E chunk \in RecvChunks(hc_rest, Min(recv_size, hc_remaining)) :
          /\ hc_rest' = From(hc_rest, Len(chunk))
          /\ IF chunk = ""
             THEN hc_pc' = "dispatch" /\ UNCHANGED <<hc_body, hc_remaining>>
             ELSE /\ hc_body' = hc_body \o chunk
                  /\ hc_remaining' = hc_remaining - Len(chunk)
                  /\ hc_pc' = IF hc_remaining' > 0 THEN "body" ELSE "dispatch"
    /\ UNCHANGED <<hc_stream, hc_raw, hc_up>>
    /\ ClientFrame

\* handle_connect_tunnel(client_sock, req.target, settings) for a CONNECT
\* request: the handler is given the socket and the target, and it either
\* sets the tunnel up (the 200 line written, relay_tunnel entered) or answers
\* with an error and returns.
HcDispatch ==
    /\ hc_pc = "dispatch"
    /\ IF str_upper(request_method(split_headers_and_body(hc_raw)[1])) = "CONNECT"
       THEN \E ok \in BOOLEAN : hc_pc' = IF ok THEN "relay" ELSE "refused"
       ELSE hc_pc' = "forward"
    /\ UNCHANGED <<hc_stream, hc_rest, hc_raw, hc_body, hc_remaining, hc_up>>
    /\ ClientFrame

\* relay_tunnel, client to upstream: what recv returns from the client socket
\* is sent to the upstream; the relay ends when the client has closed.
HcRelay ==
    /\ hc_pc = "relay"
    /\ \E chunk \in RecvChunks(hc_rest, recv_size) :
          /\ hc_rest' = From(hc_rest, Len(chunk))
          /\ hc_up' = hc_up \o chunk
          /\ hc_pc' = IF chunk = "" THEN "done" ELSE "relay"
    /\ UNCHANGED <<hc_stream, hc_raw, hc_body, hc_remaining>>
    /\ ClientFrame

ClientNext == HcRecvUntil \/ HcParse \/ HcBody \/ HcDispatch \/ HcRelay

\* One connection through handle_client, for every header block and payload
\* drawn and every way recv cuts the bytes.
SpecClient == ClientInit /\ [][ClientNext]_vars

(***************************************************************************)
(* Claims about handle_client (checked under SpecClient)                   *)
(***************************************************************************)

\* The bytes the client sent after the header block of its request.
SentAfterHeaders == split_headers_and_body(hc_stream)[2]

\* The tunnel was set up and has relayed all the client sent before closing.
TunnelDrained == hc_pc = "done" /\ hc_raw # ""

\* C33: the bytes the client sends right after the CONNECT header block and
\* that the proxy receives in the same read as the end of the headers reach
\* the upstream as the first bytes of the tunnel: no byte sent after the
\* header block is dropped.
C33_OverReadBytesReachUpstream ==
    TunnelDrained => hc_up = SentAfterHeaders

(***************************************************************************)
(* Further claims about the request handlers (checked under SpecHandler)   *)
(***************************************************************************)

\* The handler has ended: it returned, or an exception left it.
HandlerEnded == h_pc \in {"done", "raised", "send_raised"}

\* Positions in client_out of the inline error responses.
ErrorResponses == {i \in 1..Len(client_out) : client_out[i].status # 0}

\* C34: in the HTTP-forward path the client receives at most one HTTP
\* response per request: an inline error response (502, 504) is written only
\* if no byte of the upstream's response has been forwarded to the client.
C34_ErrorOnlyBeforeResponseBytes ==
    h_kind = "http" =>
        \A i \in ErrorResponses : \A j \in 1..(i - 1) : client_out[j] # DataBuf

\* C35: every upstream socket a handler has opened is closed when the handler
\* ends, whichever way it ends after the open succeeded: failed or raising
\* upstream CONNECT handshake, failed write of the 200 line, end of the relay,
\* an exception during the relay or the streaming of the response.
C35_UpstreamClosedOnEveryExit ==
    (HandlerEnded /\ up_sock # "none") => up_sock = "closed"

(***************************************************************************)
(* segmentation.py: _rule_score, applied to two rules                      *)
(***************************************************************************)

\* Longest path_prefix drawn.
MaxPrefix == 2

\* Host globs: '*', a '*.' glob, other wildcard globs, an exact host, and the
\* empty glob.
ScoredGlobs ==
    { <<"*">>, <<"*", ".", "a">>, <<"?", ".", "a">>, <<"*", "a">>, <<"x", ".", "a">>, <<>> }

ScoredPrefixes == {NoneSeq} \cup {SubSeq(<<"/", "v", "1", "2">>, 1, n) : n \in 0..MaxPrefix}

ScoredRules ==
    { SegmentationRule(g, "p", "direct", NoneStr, NoneStr, s, m, pp) :
          g \in ScoredGlobs, s \in {NoneStr, "https"}, m \in {NoneStr, "GET"},
          pp \in ScoredPrefixes }

ScoreFrame ==
    UNCHANGED <<earlier_vars, upconn_vars, openup_vars, client_vars, cachelock_vars, fwdhdr_vars, readname_vars>>

\* Two rules are given to _rule_score one after the other (as decide does
\* for the rules that match).
ScoreInit ==
    /\ EarlierIdle
    /\ UpConnIdle
    /\ OpenUpIdle
    /\ ClientIdle
    /\ CacheLockIdle
    /\ FwdHdrIdle
    /\ ReadNameIdle
    /\ sc_rules \in [1..2 -> ScoredRules]
    /\ sc_scores = <<>>
    /\ sc_idx = 0

\* score = _rule_score(rule) for the next rule
ScoreRule ==
    /\ sc_idx < Len(sc_rules)
    /\ sc_idx' = sc_idx + 1
    /\ sc_scores' = Append(sc_scores, rule_score(sc_rules[sc_idx + 1]))
    /\ UNCHANGED sc_rules
    /\ ScoreFrame

ScoreNext == ScoreRule

SpecScore == ScoreInit /\ [][ScoreNext]_vars

(***************************************************************************)
(* Claims about _rule_score (checked under SpecScore)                      *)
(***************************************************************************)

\* The characters of a host glob.
GlobChars(glob) == {glob[i] : i \in 1..Len(glob)}

\* The sum the claim gives.
SumOfTerms(rule) ==
    (IF Len(rule.host_glob) > 0 /\ rule.host_glob # <<"*">> THEN 1000 ELSE 0)
    + (IF GlobChars(rule.host_glob) \cap {"*", "?"} = {} THEN 500
       ELSE IF Len(rule.host_glob) >= 2 /\ rule.host_glob[1] = "*" /\ rule.host_glob[2] = "."
       THEN 200 ELSE 0)
    + (IF rule.scheme = NoneStr THEN 0 ELSE 100)
    + (IF rule.method = NoneStr THEN 0 ELSE 100)
    + (IF rule.path_prefix = NoneSeq THEN 0 ELSE Len(rule.path_prefix))

\* Rank of a host glob: 4 exact host, 3 '*.' glob, 2 other wildcard glob,
\* 1 the glob '*'; 0 for the empty glob, which names no host.
HostRank(glob) ==
    IF glob = <<>> THEN 0
    ELSE IF glob = <<"*">> THEN 1
    ELSE IF GlobChars(glob) \cap {"*", "?"} = {} THEN 4
    ELSE IF Len(glob) >= 2 /\ glob[1] = "*" /\ glob[2] = "." THEN 3
    ELSE 2

SameSelectorsButHost(r, q) ==
    r.scheme = q.scheme /\ r.method = q.method /\ r.path_prefix = q.path_prefix

SameSelectorsButPath(r, q) ==
    r.scheme = q.scheme /\ r.method = q.method /\ r.host_glob = q.host_glob

BothScored == sc_idx = 2

\* C39: the score of a rule is the sum of 1000 for a host glob that is not
\* empty and not '*', 500 for a glob without '*' and '?' or else 200 for a
\* glob starting with '*.', 100 for a scheme, 100 for a method, and the length
\* of the path_prefix; with the other selectors equal an exact host outranks
\* a '*.' glob, which outranks another wildcard glob, which outranks '*', and
\* a longer path_prefix outranks a shorter one.
C39_ScoreIsSumOfTerms ==
    /\ \A k \in 1..Len(sc_scores) : sc_scores[k] = SumOfTerms(sc_rules[k])
    /\ BothScored =>
          LET r == sc_rules[1]
              q == sc_rules[2]
          IN  /\ (/\ SameSelectorsButHost(r, q)
                  /\ HostRank(q.host_glob) >= 1
                  /\ HostRank(r.host_glob) > HostRank(q.host_glob))
                     => sc_scores[1] > sc_scores[2]
              /\ (/\ SameSelectorsButPath(r, q)
                  /\ r.path_prefix # NoneSeq /\ q.path_prefix # NoneSeq
                  /\ Len(r.path_prefix) > Len(q.path_prefix))
                     => sc_scores[1] > sc_scores[2]

\* A '*.' glob and another wildcard glob with the same selectors were scored.
C39_Witness ==
    /\ BothScored
    /\ sc_rules[1].host_glob = <<"*", ".", "a">>
    /\ sc_rules[2].host_glob = <<"?", ".", "a">>
    /\ SameSelectorsButHost(sc_rules[1], sc_rules[2])
    /\ sc_rules[1].path_prefix = <<"/", "v">>
    /\ sc_scores[1] = sc_scores[2] + 200

(***************************************************************************)
(* resolver.py: CachingResolver.resolve with the acquire and the release   *)
(* of self._lock as steps, and with the TTLs an inner resolver can give    *)
(***************************************************************************)

\* Largest max_entries, and resolve calls made in one behaviour.
MaxLockEntries == 1
MaxLockCalls == 3

\* The keys resolved.
LockKeys == {<<"a.example", 80>>, <<"b.example", 80>>}

\* ttl_seconds of the inner result: negative, zero, below MIN_TTL, inside
\* the range, above MAX_TTL.
LockTtls == {-1, 0, 1, 60, MAX_TTL + 1}

\* Leaving a `with self._lock` block that keeps the lock
WithExitKeepsLock(t) == t

\* Leaving a `with self._lock` block (by its end or by return): the owner
\* after it
WithExit(t) == "none"

\* self._cache.get(key) on the OrderedDict held as a sequence: position of
\* the key's entry, 0 when absent
IndexOf(entries, key) ==
    IF \E i \in 1..Len(entries) : entries[i].key = key
    THEN CHOOSE i \in 1..Len(entries) : entries[i].key = key
    ELSE 0

\* The threads inside self._inner.resolve
InInner == {t \in Threads : k_pc[t] \in {"inner", "inner_only"}}

CacheLockFrame ==
    UNCHANGED <<earlier_vars, upconn_vars, openup_vars, client_vars, score_vars, fwdhdr_vars, readname_vars>>

CacheLockInit ==
    /\ EarlierIdle
    /\ UpConnIdle
    /\ OpenUpIdle
    /\ ClientIdle
    /\ ScoreIdle
    /\ FwdHdrIdle
    /\ ReadNameIdle
    /\ k_max \in 0..MaxLockEntries
    /\ k_lock = "none"
    /\ k_cache = <<>>
    /\ k_clock = 0
    /\ k_calls = 0
    /\ k_pc = [t \in Threads |-> "idle"]
    /\ k_key = [t \in Threads |-> <<"", 0>>]
    /\ k_now = [t \in Threads |-> 0]
    /\ k_res = [t \in Threads |-> 0]
    /\ k_ret = NoReturn

\* resolve returns in thread t
KReturn(t, how, ttl) ==
    /\ k_ret' = [thread |-> t, how |-> how, key |-> k_key[t], ttl_seconds |-> ttl,
                 while_inner |-> InInner \ {t}]
    /\ k_pc' = [k_pc EXCEPT ![t] = "idle"]

\* resolve(host, port) is called: lines 348-352
KStart(t) ==
    /\ k_pc[t] = "idle"
    /\ k_calls < MaxLockCalls
    /\ k_calls' = k_calls + 1
    /\ \E key \in LockKeys : k_key' = [k_key EXCEPT ![t] = key]
    /\ IF k_max <= 0
       THEN k_pc' = [k_pc EXCEPT ![t] = "inner_only"] /\ UNCHANGED k_now
       ELSE /\ k_pc' = [k_pc EXCEPT ![t] = "acquire_lookup"]
            /\ k_now' = [k_now EXCEPT ![t] = k_clock]
    /\ UNCHANGED <<k_max, k_lock, k_cache, k_clock, k_res, k_ret>>
    /\ CacheLockFrame

\* `with self._lock:` is entered (line 354, line 394): the thread waits
\* until the lock is free and takes it.
KAcquire(t) ==
    /\ k_pc[t] \in {"acquire_lookup", "acquire_store"}
    /\ k_lock = "none"
    /\ k_lock' = t
    /\ k_pc' = [k_pc EXCEPT ![t] = IF k_pc[t] = "acquire_lookup" THEN "lookup" ELSE "store"]
    /\ UNCHANGED <<k_max, k_cache, k_clock, k_calls, k_key, k_now, k_res, k_ret>>
    /\ CacheLockFrame

\* The body of the first with block and its exit: lines 355-373.
KLookup(t) ==
    /\ k_pc[t] = "lookup"
    /\ k_lock' = WithExit(t)
    /\ LET i == IndexOf(k_cache, k_key[t])
       IN  IF i # 0 /\ Fresh(k_now[t], k_cache[i].expires_at)
           THEN /\ k_cache' = MoveToEnd(k_cache, i)
                /\ KReturn(t, "hit", RemainingTtl(k_now[t], k_cache[i].expires_at))
           ELSE /\ k_cache' = IF i # 0 THEN Remove(k_cache, i) ELSE k_cache
                /\ k_pc' = [k_pc EXCEPT ![t] = "inner"]
                /\ UNCHANGED k_ret
    /\ UNCHANGED <<k_max, k_clock, k_calls, k_key, k_now, k_res>>
    /\ CacheLockFrame

\* self._inner.resolve returns or raises (line 349, or line 375 followed by
\* lines 376-392).
KInner(t) ==
    /\ k_pc[t] \in {"inner", "inner_only"}
    /\ \/ KReturn(t, "raised", 0) /\ UNCHANGED k_res
       \/ \E ttl \in LockTtls :
             IF k_pc[t] = "inner_only" \/ ClampTtl(ttl) <= 0
             THEN KReturn(t, "miss", ttl) /\ UNCHANGED k_res
             ELSE /\ k_res' = [k_res EXCEPT ![t] = ttl]
                  /\ k_pc' = [k_pc EXCEPT ![t] = "acquire_store"]
                  /\ UNCHANGED k_ret
    /\ UNCHANGED <<k_max, k_lock, k_cache, k_clock, k_calls, k_key, k_now>>
    /\ CacheLockFrame

\* The body of the second with block, its exit and the return: lines 395-405.
\* An entry also records the TTL the inner resolver gave and the now of the
\* call that stored it.
KStore(t) ==
    /\ k_pc[t] = "store"
    /\ k_lock' = WithExit(t)
    /\ LET i == IndexOf(k_cache, k_key[t])
           entry == [key |-> k_key[t],
                     expires_at |-> k_now[t] + ClampTtl(k_res[t]) * TicksPerSecond,
                     inner_ttl |-> k_res[t], now |-> k_now[t]]
       IN  k_cache' = IF i # 0 THEN [k_cache EXCEPT ![i] = entry]
                      ELSE IF Len(k_cache) >= k_max THEN Append(Tail(k_cache), entry)
                      ELSE Append(k_cache, entry)
    /\ KReturn(t, "miss", k_res[t])
    /\ UNCHANGED <<k_max, k_clock, k_calls, k_key, k_now, k_res>>
    /\ CacheLockFrame

\* time.monotonic() moves on.
KAdvance ==
    /\ \E later \in Instants : later > k_clock /\ k_clock' = later
    /\ UNCHANGED <<k_max, k_lock, k_cache, k_calls, k_pc, k_key, k_now, k_res, k_ret>>
    /\ CacheLockFrame

CacheLockNext ==
    \/ \E t \in Threads : KStart(t)
    \/ \E t \in Threads : KAcquire(t)
    \/ \E t \in Threads : KLookup(t)
    \/ \E t \in Threads : KInner(t)
    \/ \E t \in Threads : KStore(t)
    \/ KAdvance

SpecCacheLock == CacheLockInit /\ [][CacheLockNext]_vars

(***************************************************************************)
(* Claims about the TTL and the lock of CachingResolver (SpecCacheLock)    *)
(***************************************************************************)

\* ttl clamped to [5, 3600]
ClampedTo5And3600(ttl) == IF ttl < 5 THEN 5 ELSE IF ttl > 3600 THEN 3600 ELSE ttl

C37_StoredState ==
    \A i \in 1..Len(k_cache) :
        /\ k_cache[i].inner_ttl > 0
        /\ k_cache[i].expires_at - k_cache[i].now
               = ClampedTo5And3600(k_cache[i].inner_ttl) * TicksPerSecond

\* A step in which resolve returns an inner result with ttl_seconds <= 0
\* returns that TTL and leaves the cache as it was.
C37_UnstoredStep ==
    \A t \in Threads :
        (/\ k_pc[t] = "inner" /\ k_pc'[t] = "idle"
         /\ k_ret'.how = "miss")
            => /\ k_ret'.ttl_seconds <= 0
               /\ k_cache' = k_cache

\* C37: when CachingResolver stores an inner result, the stored lifetime
\* (expires_at minus the time taken at the start of that resolve call) is the
\* inner ttl_seconds clamped to [5, 3600]; an inner result with
\* ttl_seconds <= 0 is returned to the caller and never stored, so a later
\* resolve of the key finds no entry made from it and calls the inner
\* resolver again.
C37_LifetimeIsClampedTtl == []C37_StoredState /\ [][C37_UnstoredStep]_vars

\* An entry made from a TTL above MAX_TTL is in the cache, and the call that
\* just returned had got a TTL of 0 for the other key, which has no entry.
C37_Witness ==
    /\ \E i \in 1..Len(k_cache) : k_cache[i].inner_ttl = MAX_TTL + 1
    /\ k_ret.how = "miss" /\ k_ret.ttl_seconds = 0
    /\ IndexOf(k_cache, k_ret.key) = 0

\* C38: no thread holds the cache lock while it executes the inner resolver's
\* resolve: the lock is held only across the lookup step and the insert step,
\* so a slow inner resolution for one key never blocks a cache hit for
\* another key.
C38_LockNotHeldDuringInner ==
    /\ \A t \in InInner : k_lock # t
    /\ \A t \in Threads : k_lock = t => k_pc[t] \in {"lookup", "store"}
    /\ (\A t \in Threads : k_pc[t] \notin {"lookup", "store"}) => k_lock = "none"

\* A hit for one key was returned while the other thread was inside the
\* inner resolve for another key, where it still is.
C38_Witness ==
    /\ k_ret.how = "hit"
    /\ k_ret.while_inner # {}
    /\ \E t \in k_ret.while_inner : k_pc[t] = "inner" /\ k_key[t] # k_ret.key

(***************************************************************************)
(* handlers.py: handle_http_forward, the headers sent upstream, with       *)
(* http.py, parse_http_request, which builds req.headers                   *)
(*                                                                         *)
(* A dict is a sequence of <<key, value>> pairs in insertion order.        *)
(***************************************************************************)

\* Most Connection lines in a request drawn.
MaxConnectionLines == 2

\* d.get(k): None when absent
dict_get(d, k) ==
    IF \E i \in 1..Len(d) : d[i][1] = k
    THEN d[CHOOSE i \in 1..Len(d) : d[i][1] = k][2]
    ELSE NoneStr

\* d[k] = v: a key already there keeps its place
dict_set(d, k, v) ==
    IF \E i \in 1..Len(d) : d[i][1] = k
    THEN [i \in 1..Len(d) |-> IF d[i][1] = k THEN <<k, v>> ELSE d[i]]
    ELSE Append(d, <<k, v>>)

\* d.pop(k, None) for every k of a set
dict_pop(d, keys) == SelectSeq(d, LAMBDA kv : kv[1] \notin keys)

\* The headers loop of parse_http_request: lines without a colon are
\* skipped, the key is stripped and lowercased, the value stripped.
RECURSIVE parse_headers(_, _)
parse_headers(lines, d) ==
    IF lines = <<>>
    THEN d
    ELSE LET line == Head(lines)
         IN  IF line = "" \/ find_sub(line, ":") = 0
             THEN parse_headers(Tail(lines), d)
             ELSE parse_headers(Tail(lines),
                      dict_set(d, str_lower(str_strip(split_once(line, ":")[1])),
                               str_strip(split_once(line, ":")[2])))

hop_by_hop ==
    { "connection", "proxy-connection", "keep-alive", "transfer-encoding", "te",
      "trailer", "upgrade", "proxy-authenticate", "proxy-authorization" }

\* token.strip().lower() for token in conn_hdr.split(",")
connection_tokens(conn_hdr) ==
    {str_lower(str_strip(str_split(conn_hdr, ",")[i])) : i \in 1..Len(str_split(conn_hdr, ","))}

\* headers as handle_http_forward leaves it (lines 32-64)
forward_headers(req_headers, host, port) ==
    LET conn_hdr == dict_get(req_headers, "connection")
        te == dict_get(req_headers, "transfer-encoding")
        h1 == dict_pop(req_headers, hop_by_hop)
        h2 == IF conn_hdr \notin {NoneStr, ""}
              THEN dict_pop(h1, connection_tokens(conn_hdr)) ELSE h1
        h3 == IF te \notin {NoneStr, ""} /\ str_lower(te) = "chunked"
              THEN dict_pop(h2, {"content-length"}) ELSE h2
        h4 == dict_set(h3, "host", IF port = 80 THEN host ELSE host \o ":" \o str(port))
    IN  dict_set(h4, "connection", "close")

\* "".join(f"{k}: {v}\r\n" for k, v in headers.items())
RECURSIVE header_blob(_)
header_blob(d) ==
    IF d = <<>> THEN "" ELSE Head(d)[1] \o ": " \o Head(d)[2] \o "\r\n" \o header_blob(Tail(d))

\* The target host of the requests drawn.
TargetHost == "h.example"

\* The Connection lines a request is drawn with.
ConnectionLines ==
    { "Connection: close", "Connection: keep-alive", "connection: X-A , te", "Connection: Host" }

\* The other header lines of a request, in the order they are sent.
OtherLines ==
    << "Host: h.example", "X-A: 1", "Keep-Alive: 5", "TE: trailers",
       "Transfer-Encoding: chunked", "Content-Length: 3", "Proxy-Authorization: b" >>

\* The lines of a subset of OtherLines, in order.
RECURSIVE Picked(_, _)
Picked(lines, keep) ==
    IF lines = <<>> THEN <<>>
    ELSE (IF Len(lines) \in keep THEN <<Head(lines)>> ELSE <<>>) \o Picked(Tail(lines), keep)

ConnectionSeqs == UNION {[1..n -> ConnectionLines] : n \in 0..MaxConnectionLines}

FwdHdrFrame ==
    UNCHANGED <<earlier_vars, upconn_vars, openup_vars, client_vars, score_vars, cachelock_vars, readname_vars>>

\* A request whose target is http://h.example[:port]/ is read: header lines
\* in any of the combinations drawn, the Connection lines last.
FwdHdrInit ==
    /\ EarlierIdle
    /\ UpConnIdle
    /\ OpenUpIdle
    /\ ClientIdle
    /\ ScoreIdle
    /\ CacheLockIdle
    /\ ReadNameIdle
    /\ fw_lines \in {Picked(OtherLines, keep) \o c :
                        keep \in SUBSET (1..Len(OtherLines)), c \in ConnectionSeqs}
    /\ fw_port \in {80, 8080}
    /\ fw_req = <<>>
    /\ fw_headers = <<>>
    /\ fw_blob = ""
    /\ fw_pc = "parse"

\* parse_http_request(header_bytes).headers
FwParse ==
    /\ fw_pc = "parse"
    /\ fw_req' = parse_headers(fw_lines, <<>>)
    /\ fw_pc' = "build"
    /\ UNCHANGED <<fw_lines, fw_port, fw_headers, fw_blob>>
    /\ FwdHdrFrame

\* handle_http_forward, lines 32-64 and the header_blob of line 120
FwBuild ==
    /\ fw_pc = "build"
    /\ fw_headers' = forward_headers(fw_req, TargetHost, fw_port)
    /\ fw_blob' = header_blob(fw_headers')
    /\ fw_pc' = "sent"
    /\ UNCHANGED <<fw_lines, fw_port, fw_req>>
    /\ FwdHdrFrame

FwdHdrNext == FwParse \/ FwBuild

SpecFwdHdr == FwdHdrInit /\ [][FwdHdrNext]_vars

(***************************************************************************)
(* Claims about the forwarded headers (checked under SpecFwdHdr)           *)
(***************************************************************************)

\* The header lines of the block sent upstream, as <<name, value>>.
SentLines ==
    LET lines == SelectSeq(split_sub(fw_blob, "\r\n"), LAMBDA l : l # "")
    IN  [i \in 1..Len(lines) |->
            <<SubSeq(lines[i], 1, find_sub(lines[i], ": ") - 1),
              From(lines[i], find_sub(lines[i], ": ") + 1)>>]

SentNames == {SentLines[i][1] : i \in 1..Len(SentLines)}

SentValues(name) == {i \in 1..Len(SentLines) : SentLines[i][1] = name}

\* The names in the Connection token lists the client sent.
ClientConnectionTokens ==
    UNION { connection_tokens(str_strip(split_once(fw_lines[i], ":")[2])) :
                i \in {j \in 1..Len(fw_lines) :
                          str_lower(str_strip(split_once(fw_lines[j], ":")[1])) = "connection"} }

HostValue == IF fw_port = 80 THEN "h.example" ELSE "h.example:8080"

\* C36: the header block sent upstream holds none of the hop-by-hop names
\* (proxy-connection, keep-alive, transfer-encoding, te, trailer, upgrade,
\* proxy-authenticate, proxy-authorization), none of the headers named in the
\* client's Connection token list, exactly one connection header, whose value
\* is close, and exactly one host header, equal to the target host with
\* ':port' appended iff the port is not 80.  The host and connection headers
\* the proxy writes itself are not counted as headers named by the client.
C36_ForwardedHeaderBlock ==
    fw_pc = "sent" =>
        /\ SentNames \cap { "proxy-connection", "keep-alive", "transfer-encoding", "te",
                            "trailer", "upgrade", "proxy-authenticate",
                            "proxy-authorization" } = {}
        /\ SentNames \cap (ClientConnectionTokens \ {"host", "connection"}) = {}
        /\ Cardinality(SentValues("connection")) = 1
        /\ \A i \in SentValues("connection") : SentLines[i][2] = "close"
        /\ Cardinality(SentValues("host")) = 1
        /\ \A i \in SentValues("host") : SentLines[i][2] = HostValue

(***************************************************************************)
(* resolver.py: PlainDnsResolver._read_name                                *)
(*                                                                         *)
(* data is a sequence of bytes; data[i] of the code is rn_data[i + 1].    *)
(* A str is the sequence of its code points.  One step is one pass of the  *)
(* while loop, the last step the join and the return.                      *)
(***************************************************************************)

\* Longest message drawn.
MaxMsgLen == 4

\* The byte values drawn: the root label, two short lengths, the letter a
\* (also a length beyond every message drawn) and a pointer byte, which
\* is not ASCII either.
MsgBytes == {0, 1, 2, 97, 192}

Messages == UNION {[1..n -> MsgBytes] : n \in 0..MaxMsgLen}

\* len(data)
data_len == Len(rn_data)

\* data[i] for i >= 0: the byte, or an IndexError outside the message
in_message(i) == i >= 0 /\ i < data_len

byte_at(i) == rn_data[i + 1]

\* data[a:b] for 0 <= a <= b: a slice stops at the end of the message
slice(a, b) ==
    LET last == IF b > data_len THEN data_len ELSE b
    IN  IF a >= last THEN <<>> ELSE SubSeq(rn_data, a + 1, last)

\* length & 0xC0 == 0xC0, for a byte
is_pointer(length) == (length \div 64) % 4 = 3

\* ((length & 0x3F) << 8) | low, for bytes
pointer_of(length, low) == (length % 64) * 256 + low

\* next_offset + 1 >= len(data)
pointer_truncated_unchecked(off, n) == FALSE

pointer_truncated(off, n) == off + 1 >= n

\* next_offset + length > len(data)
label_out_of_range(off, length, n) == off + length > n

\* bytes.decode("ascii"): the code points are the bytes, and a byte of
\* 0x80 or more is a UnicodeDecodeError
decodes_ascii(bs) == \A i \in 1..Len(bs) : bs[i] < 128

\* ".".join(labels), "." being code point 46
RECURSIVE join_labels(_)
join_labels(ls) ==
    IF ls = <<>> THEN <<>>
    ELSE IF Len(ls) = 1 THEN Head(ls)
    ELSE Head(ls) \o <<46>> \o join_labels(Tail(ls))

NameOutOfRange == "DNS name out of range"
PointerTruncated == "DNS name pointer truncated"
PointerLoop == "DNS name pointer loop"
LabelOutOfRange == "DNS label out of range"
DecodeError == "UnicodeDecodeError"
IndexError == "IndexError"

ReadNameFrame ==
    UNCHANGED <<earlier_vars, upconn_vars, openup_vars, client_vars, score_vars, cachelock_vars, fwdhdr_vars>>

\* _read_name(data, offset) is called: lines 300-304.  _parse_response
\* calls it with offsets that start at the end of the header and only grow,
\* so with offset >= 0.
ReadNameInit ==
    /\ EarlierIdle
    /\ UpConnIdle
    /\ OpenUpIdle
    /\ ClientIdle
    /\ ScoreIdle
    /\ CacheLockIdle
    /\ FwdHdrIdle
    /\ rn_data \in Messages
    /\ rn_offset \in 0..Len(rn_data)
    /\ labels = <<>>
    /\ jumped = FALSE
    /\ next_offset = rn_offset
    /\ after_pointer = rn_offset
    /\ seen_offsets = {}
    /\ rn_reads = {}
    /\ rn_ret = <<"none", <<>>, 0>>
    /\ rn_pc = "loop"

RnRaise(error, reads) ==
    /\ rn_ret' = <<"raise", error, 0>>
    /\ rn_reads' = rn_reads \cup reads
    /\ rn_pc' = "done"

\* One pass of the while loop, lines 307-329.
RnIter ==
    /\ rn_pc = "loop"
    /\ IF next_offset >= data_len
       THEN /\ RnRaise(NameOutOfRange, {})
            /\ UNCHANGED <<labels, jumped, next_offset, after_pointer, seen_offsets>>
       ELSE LET length == byte_at(next_offset)
            IN  IF is_pointer(length)
                THEN IF pointer_truncated(next_offset, data_len)
                     THEN /\ RnRaise(PointerTruncated, {next_offset})
                          /\ UNCHANGED <<labels, jumped, next_offset, after_pointer, seen_offsets>>
                     ELSE IF ~in_message(next_offset + 1)
                     THEN /\ RnRaise(IndexError, {next_offset, next_offset + 1})
                          /\ UNCHANGED <<labels, jumped, next_offset, after_pointer, seen_offsets>>
                     ELSE LET pointer == pointer_of(length, byte_at(next_offset + 1))
                          IN  IF pointer \in seen_offsets
                              THEN /\ RnRaise(PointerLoop, {next_offset, next_offset + 1})
                                   /\ UNCHANGED <<labels, jumped, next_offset, after_pointer,
                                                  seen_offsets>>
                              ELSE /\ seen_offsets' = seen_offsets \cup {pointer}
                                   /\ after_pointer' = IF ~jumped THEN next_offset + 2
                                                       ELSE after_pointer
                                   /\ jumped' = TRUE
                                   /\ next_offset' = pointer
                                   /\ rn_reads' = rn_reads \cup {next_offset, next_offset + 1}
                                   /\ UNCHANGED <<labels, rn_ret, rn_pc>>
                ELSE IF length = 0
                THEN /\ next_offset' = next_offset + 1
                     /\ rn_reads' = rn_reads \cup {next_offset}
                     /\ rn_pc' = "join"
                     /\ UNCHANGED <<labels, jumped, after_pointer, seen_offsets, rn_ret>>
                ELSE IF label_out_of_range(next_offset + 1, length, data_len)
                THEN /\ RnRaise(LabelOutOfRange, {next_offset})
                     /\ next_offset' = next_offset + 1
                     /\ UNCHANGED <<labels, jumped, after_pointer, seen_offsets>>
                ELSE LET label == slice(next_offset + 1, next_offset + 1 + length)
                         read == {next_offset} \cup
                                 {i \in (next_offset + 1)..(next_offset + length) : in_message(i)}
                     IN  IF ~decodes_ascii(label)
                         THEN /\ RnRaise(DecodeError, read)
                              /\ next_offset' = next_offset + 1
                              /\ UNCHANGED <<labels, jumped, after_pointer, seen_offsets>>
                         ELSE /\ labels' = Append(labels, label)
                              /\ next_offset' = next_offset + 1 + length
                              /\ rn_reads' = rn_reads \cup read
                              /\ UNCHANGED <<jumped, after_pointer, seen_offsets, rn_ret, rn_pc>>
    /\ UNCHANGED <<rn_data, rn_offset>>
    /\ ReadNameFrame

\* After the break: lines 331-332.
RnReturn ==
    /\ rn_pc = "join"
    /\ rn_ret' = <<"return", join_labels(labels), IF jumped THEN after_pointer ELSE next_offset>>
    /\ rn_pc' = "done"
    /\ UNCHANGED <<rn_data, rn_offset, labels, jumped, next_offset, after_pointer, seen_offsets,
                   rn_reads>>
    /\ ReadNameFrame

ReadNameNext == RnIter \/ RnReturn

SpecReadName == ReadNameInit /\ [][ReadNameNext]_vars

\* The call is one thread's run of a loop without waits: it keeps stepping.
SpecReadNameFair == SpecReadName /\ WF_vars(ReadNameNext)

(***************************************************************************)
(* Claims about _read_name (checked under SpecReadNameFair)                *)
(***************************************************************************)

\* Every byte read lies inside the message.
ReadsInsideMessage == \A i \in rn_reads : i >= 0 /\ i < Len(rn_data)

\* The call has returned a name and an offset after the name's first
\* encoding, inside the message or at its end.
ReturnedName ==
    /\ rn_ret[1] = "return"
    /\ rn_ret[3] > rn_offset
    /\ rn_ret[3] <= Len(rn_data)

\* The pointer at next_offset names a target that was followed before.
PointerFollowedTwice ==
    /\ next_offset + 1 < Len(rn_data)
    /\ rn_data[next_offset + 1] >= 192
    /\ (rn_data[next_offset + 1] - 192) * 256 + rn_data[next_offset + 2] \in seen_offsets

\* The pointer at next_offset lacks its second byte.
PointerPastEnd ==
    /\ next_offset + 1 = Len(rn_data)
    /\ rn_data[next_offset + 1] >= 192

\* The label whose length byte is just before next_offset ends after the
\* message.
LabelPastEnd ==
    /\ next_offset >= 1
    /\ next_offset <= Len(rn_data)
    /\ rn_data[next_offset] \in 1..191
    /\ next_offset + rn_data[next_offset] > Len(rn_data)

\* The offset reached, the start offset or a pointer's target or the end of
\* a label, is not an offset of the message.
OffsetOutOfRange == next_offset >= Len(rn_data)

\* The label whose length byte is just before next_offset lies inside the
\* message and holds a byte that is not ASCII.
LabelNotAscii ==
    /\ next_offset >= 1
    /\ next_offset + rn_data[next_offset] <= Len(rn_data)
    /\ \E i \in (next_offset + 1)..(next_offset + rn_data[next_offset]) : rn_data[i] >= 128

RaisedAsListed ==
    /\ rn_ret[1] = "raise"
    /\ \/ rn_ret[2] = PointerLoop /\ PointerFollowedTwice
       \/ rn_ret[2] = PointerTruncated /\ PointerPastEnd
       \/ rn_ret[2] = LabelOutOfRange /\ LabelPastEnd
       \/ rn_ret[2] = NameOutOfRange /\ OffsetOutOfRange

RaisedOnNonAscii == rn_ret = <<"raise", DecodeError, 0>> /\ LabelNotAscii

C40_OutcomeAsListed ==
    /\ ReadsInsideMessage
    /\ rn_pc = "done" => ReturnedName \/ RaisedAsListed

C40_OutcomeOrDecodeError ==
    /\ ReadsInsideMessage
    /\ rn_pc = "done" => ReturnedName \/ RaisedAsListed \/ RaisedOnNonAscii

====
